---------------------------- MODULE Spec2Model ----------------------------
(***************************************************************************)
(* Multi-tenant notes backend: the access control chain (authenticate,     *)
(* requireAdmin, requireMember, validateTenant), the subscription gate     *)
(* (Tenant.canCreateNote), the note ownership policy (Note.canModify) and  *)
(* the note and tenant handlers that use them.                             *)
(*                                                                         *)
(* Node runs a handler without interruption between two awaits, so one     *)
(* action is one store round trip together with the synchronous code that  *)
(* follows it, up to the next store call or the response.  A request's     *)
(* inputs (header, route parameters, body) are drawn in the step that      *)
(* first reads them.                                                       *)
(***************************************************************************)
EXTENDS Integers, Sequences, FiniteSets, TLC

VARIABLES users, tenants, notes, nextId, now, req, issued

vars == <<users, tenants, notes, nextId, now, req, issued>>

(***************************************************************************)
(* Bounds of the model                                                     *)
(***************************************************************************)
\* requests issued in one behaviour
MaxRequests == 2

(***************************************************************************)
(* Program constants                                                       *)
(***************************************************************************)
\* settings.max_notes default: the free plan limit
DefaultMaxNotes == 3
\* settings.max_notes after upgradeToPro: "-1 means unlimited"
Unlimited == -1
\* JWT_EXPIRES_IN default "7d", in clock ticks
TokenLifetime == 1

JWT_SECRET == "server-secret"
Issuer == "notes-saas"

\* two connections; a free one with the lower name takes the next request
Reqs == {"r1", "r2"}
Before(a, b) == a = "r1" /\ b = "r2"

Roles == {"admin", "member"}
Plans == {"free", "pro"}
Contents == {"a", "b"}

(***************************************************************************)
(* The seeded store (config/seeder.js)                                     *)
(***************************************************************************)
SeedTenants ==
    [t \in {"t_acme", "t_globex"} |->
        [_id |-> t,
         slug |-> IF t = "t_acme" THEN "acme" ELSE "globex",
         plan |-> "free",
         max_notes |-> DefaultMaxNotes]]

SeedUsers ==
    [u \in {"u_admin_acme", "u_user_acme", "u_admin_globex", "u_user_globex"} |->
        [_id |-> u,
         email |-> CASE u = "u_admin_acme" -> "admin@acme.test"
                     [] u = "u_user_acme" -> "user@acme.test"
                     [] u = "u_admin_globex" -> "admin@globex.test"
                     [] OTHER -> "user@globex.test",
         role |-> IF u \in {"u_admin_acme", "u_admin_globex"} THEN "admin" ELSE "member",
         tenant |-> IF u \in {"u_admin_acme", "u_user_acme"} THEN "t_acme" ELSE "t_globex",
         isActive |-> TRUE]]

NoteId(i) == "n" \o ToString(i)

NewNote(i, author, tenant, content) ==
    [_id |-> NoteId(i), createdAt |-> i, tenant |-> tenant, author |-> author,
     content |-> content, isArchived |-> FALSE]

SeedNotes ==
    {NewNote(1, "u_user_acme", "t_acme", "a"),
     NewNote(2, "u_admin_acme", "t_acme", "a"),
     NewNote(3, "u_user_globex", "t_globex", "a")}

UserIds == DOMAIN SeedUsers
TenantIds == DOMAIN SeedTenants

\* a user of an earlier seeding: its token still verifies, its record is gone
GoneUser ==
    [_id |-> "u_gone", email |-> "old@acme.test", role |-> "admin",
     tenant |-> "t_acme", isActive |-> TRUE]

(***************************************************************************)
(* utils/jwt.js                                                            *)
(***************************************************************************)
Sign(payload, key) == [key |-> key, over |-> payload]

\* jwt.sign(payload, secret, {expiresIn, issuer}) at time t
generateToken(payload, t) ==
    LET full == [userId |-> payload.userId, email |-> payload.email,
                 role |-> payload.role, tenantId |-> payload.tenantId,
                 tenantSlug |-> payload.tenantSlug,
                 iat |-> t, exp |-> t + TokenLifetime, iss |-> Issuer]
    IN  [payload |-> full, sig |-> Sign(full, JWT_SECRET)]

\* user.tenant is populated by login ("name slug subscription")
generateAccessToken(user, tenantDoc, t) ==
    generateToken([userId |-> user._id, email |-> user.email, role |-> user.role,
                   tenantId |-> tenantDoc._id, tenantSlug |-> tenantDoc.slug], t)

\* the verification that looks at the signature and not at exp
JwtVerifiesAnyTime(token, key, t) ==
    token.sig = Sign(token.payload, key)

\* jwt.verify(token, secret): the signature covers the payload, exp is in the future
JwtVerifies(token, key, t) ==
    /\ token.sig = Sign(token.payload, key)
    /\ t < token.payload.exp

\* a token the server never signed: same claims, another key
Forge(token) == [token EXCEPT !.sig = Sign(token.payload, "attacker-key")]
\* a signed token whose role claim was rewritten afterwards
Tamper(token) == [token EXCEPT !.payload.role = "admin", !.payload.userId = "u_admin_acme"]

NoHeader == [scheme |-> "absent"]
EmptyCred == [payload |-> [userId |-> ""], sig |-> Sign([userId |-> ""], "")]

\* tokens in the clients' hands: one per seeded user from a login at time 0, one
\* of a user since removed, and one from a login a token lifetime ago
SeedTokens ==
    {generateAccessToken(SeedUsers[u], SeedTenants[SeedUsers[u].tenant], 0) : u \in UserIds}
    \cup {generateAccessToken(GoneUser, SeedTenants[GoneUser.tenant], 0)}
    \cup {generateAccessToken(SeedUsers["u_admin_acme"], SeedTenants["t_acme"],
                              0 - TokenLifetime)}

\* Authorization headers a client can send: none, an empty credential, each issued
\* token, and for the tokens of one member a copy without the scheme word, a copy
\* signed with another key and a copy whose claims were rewritten
Headers ==
    {NoHeader, [scheme |-> "Bearer", cred |-> EmptyCred]}
    \cup {[scheme |-> "Bearer", cred |-> t] : t \in SeedTokens}
    \cup UNION {{[scheme |-> "", cred |-> t],
                 [scheme |-> "Bearer", cred |-> Forge(t)],
                 [scheme |-> "Bearer", cred |-> Tamper(t)]} :
                    t \in {x \in SeedTokens : x.payload.userId = "u_user_acme"}}

\* req.header("Authorization")?.replace("Bearer ", "")
StripBearer(hdr) == IF hdr.scheme = "absent" THEN EmptyCred ELSE hdr.cred

(***************************************************************************)
(* Store queries (mongoose over the users, tenants and notes collections)  *)
(***************************************************************************)
Null == [kind |-> "null"]

\* an ObjectId value and a populated sub-document, as canModify sees them
Oid(hex) == [kind |-> "ObjectId", hex |-> hex]
AuthorDoc(u) == [kind |-> "Document", _id |-> u._id, email |-> u.email, role |-> u.role]

\* ObjectId.toString() is the hex id; Document.toString() is the inspected document
ToStr(v) ==
    IF v.kind = "ObjectId" THEN v.hex
    ELSE "{ _id: " \o v._id \o ", email: '" \o v.email \o "', role: '" \o v.role \o "' }"

\* a hex string mongoose can cast to an ObjectId; anything else is a CastError
MalformedId == "not-an-id"
IsObjectId(id) == id # MalformedId

\* Tenant.findOne({ slug })
FindTenantBySlug(slug) ==
    IF \E t \in DOMAIN tenants : tenants[t].slug = slug
    THEN tenants[CHOOSE t \in DOMAIN tenants : tenants[t].slug = slug]
    ELSE Null

\* User.findById(id).populate("tenant")
FindUserById(id) ==
    IF id \in DOMAIN users
    THEN [users[id] EXCEPT !.tenant = tenants[users[id].tenant]]
    ELSE Null

\* the lookup by id alone, without the tenant in the filter
FindUserAnyTenant(id, tenantId) ==
    IF id \in DOMAIN users THEN users[id] ELSE Null

\* User.findOne({ _id, tenant })
FindUserInTenant(id, tenantId) ==
    IF id \in DOMAIN users /\ users[id].tenant = tenantId THEN users[id] ELSE Null

\* the count taken over the notes the list queries show
CountNotesUnarchived(coll, tenantId) ==
    Cardinality({n \in coll : n.tenant = tenantId /\ n.isArchived = FALSE})

\* Note.countDocuments({ tenant }) over a notes collection
CountNotes(coll, tenantId) == Cardinality({n \in coll : n.tenant = tenantId})

\* the document mongoose returns for a stored note, author as ObjectId
NoteDoc(n) == [n EXCEPT !.author = Oid(n.author)]

\* .populate("author", "email role")
PopulateAuthor(usrs, n) ==
    [n EXCEPT !.author = IF n.author \in DOMAIN usrs THEN AuthorDoc(usrs[n.author]) ELSE Null]

\* the fetch by _id alone, the tenant filter left out
FindNoteAnyTenant(coll, id, tenantId) ==
    IF \E n \in coll : n._id = id THEN CHOOSE n \in coll : n._id = id ELSE Null

\* Note.findOne({ _id: id, tenant: tenantId }): the stored note or Null
FindNoteInTenant(coll, id, tenantId) ==
    IF \E n \in coll : n._id = id /\ n.tenant = tenantId
    THEN CHOOSE n \in coll : n._id = id /\ n.tenant = tenantId
    ELSE Null

\* findById*: by _id alone
FindNoteById(coll, id) ==
    IF \E n \in coll : n._id = id THEN CHOOSE n \in coll : n._id = id ELSE Null

(***************************************************************************)
(* models/Tenant.js, models/Note.js                                        *)
(***************************************************************************)
\* the gate with the comparison off by one
canCreateNoteOffByOne(tenantDoc, coll) ==
    IF tenantDoc.plan = "pro" THEN TRUE
    ELSE CountNotes(coll, tenantDoc._id) <= tenantDoc.max_notes

\* tenantSchema.methods.canCreateNote, on a loaded tenant document
canCreateNote(tenantDoc, coll) ==
    IF tenantDoc.plan = "pro" THEN TRUE
    ELSE CountNotes(coll, tenantDoc._id) < tenantDoc.max_notes

\* the upgrade that sets the plan and leaves the note limit
upgradeToProPlanOnly(tenantDoc) == [tenantDoc EXCEPT !.plan = "pro"]

\* tenantSchema.methods.upgradeToPro: the fields it sets before save()
upgradeToPro(tenantDoc) == [tenantDoc EXCEPT !.plan = "pro", !.max_notes = Unlimited]

\* the policy without its admin branch
canModifyAuthorOnly(noteDoc, userId, userRole) ==
    ToStr(noteDoc.author) = ToStr(userId)

\* the policy letting every member through as it lets admins
canModifyAnyMember(noteDoc, userId, userRole) ==
    IF userRole \in {"admin", "member"} THEN TRUE
    ELSE ToStr(noteDoc.author) = ToStr(userId)

\* noteSchema.methods.canModify(userId, userRole), this = noteDoc
canModify(noteDoc, userId, userRole) ==
    IF userRole = "admin" THEN TRUE
    ELSE ToStr(noteDoc.author) = ToStr(userId)

\* the hook comparing the two ObjectIds by identity, which never holds
PreSaveNoteByIdentity(author, tenantId) ==
    IF author \notin DOMAIN users THEN "Author not found"
    ELSE "Note tenant must match author tenant"

\* the hook that only looks the author up
PreSaveNoteAuthorOnly(author, tenantId) ==
    IF author \notin DOMAIN users THEN "Author not found" ELSE "ok"

\* noteSchema.pre("save") on a new note: "ok" or the error it passes to next()
PreSaveNote(author, tenantId) ==
    IF author \notin DOMAIN users THEN "Author not found"
    ELSE IF users[author].tenant # tenantId THEN "Note tenant must match author tenant"
    ELSE "ok"

(***************************************************************************)
(* A request in flight                                                     *)
(***************************************************************************)
NoUser == [kind |-> "none"]
NoTenant == [kind |-> "none"]
NoBody == [kind |-> "none"]

Idle ==
    [pc |-> "idle", op |-> "none", user |-> NoUser, tenant |-> NoTenant,
     slug |-> "", id |-> "", val |-> "", doc |-> Null, noteCount |-> -1,
     status |-> 0, error |-> "", body |-> NoBody]

\* res.status(s).json({ error }): the request is answered and goes no further
Respond(q, s, e) ==
    [q EXCEPT !.pc = "done", !.status = s, !.error = e, !.slug = "", !.doc = Null]
\* res.status(s).json({ success: true, ... })
Reply(q, s, b) ==
    [q EXCEPT !.pc = "done", !.status = s, !.body = b, !.slug = "", !.doc = Null]
Await(q, point) == [q EXCEPT !.pc = point]

Forwarded(q) == q.status = 0

(***************************************************************************)
(* middleware/auth.js                                                      *)
(***************************************************************************)
\* authenticate without its isActive test
authenticateAnyAccount(q, hdr) ==
    LET token == StripBearer(hdr) IN
    IF token = EmptyCred
    THEN Respond(q, 401, "Access denied. No token provided.")
    ELSE IF ~JwtVerifies(token, JWT_SECRET, now)
    THEN Respond(q, 401, "Invalid token.")
    ELSE LET user == FindUserById(token.payload.userId) IN
         IF user = Null
         THEN Respond(q, 401, "Invalid token. User not found.")
         ELSE [q EXCEPT !.user = user, !.tenant = user.tenant]

\* authenticate taking the role from the token's claims
authenticateTrustsToken(q, hdr) ==
    LET token == StripBearer(hdr) IN
    IF token = EmptyCred
    THEN Respond(q, 401, "Access denied. No token provided.")
    ELSE IF ~JwtVerifies(token, JWT_SECRET, now)
    THEN Respond(q, 401, "Invalid token.")
    ELSE LET user == FindUserById(token.payload.userId) IN
         IF user = Null
         THEN Respond(q, 401, "Invalid token. User not found.")
         ELSE IF ~user.isActive
         THEN Respond(q, 401, "Account is deactivated.")
         ELSE [q EXCEPT !.user = [user EXCEPT !.role = token.payload.role],
                        !.tenant = user.tenant]

authenticate(q, hdr) ==
    LET token == StripBearer(hdr) IN
    IF token = EmptyCred
    THEN Respond(q, 401, "Access denied. No token provided.")
    ELSE IF ~JwtVerifies(token, JWT_SECRET, now)
    THEN Respond(q, 401, "Invalid token.")
    ELSE LET user == FindUserById(token.payload.userId) IN
         IF user = Null
         THEN Respond(q, 401, "Invalid token. User not found.")
         ELSE IF ~user.isActive
         THEN Respond(q, 401, "Account is deactivated.")
         ELSE [q EXCEPT !.user = user, !.tenant = user.tenant]

\* requireAdmin answering 403 without returning, so that next() is still called
requireAdminFallsThrough(q) ==
    IF q.user = NoUser THEN Respond(q, 401, "Authentication required.")
    ELSE IF q.user.role # "admin"
    THEN [q EXCEPT !.status = 403, !.error = "Access denied. Admin privileges required."]
    ELSE q

requireAdmin(q) ==
    IF q.user = NoUser THEN Respond(q, 401, "Authentication required.")
    ELSE IF q.user.role # "admin"
    THEN Respond(q, 403, "Access denied. Admin privileges required.")
    ELSE q

\* requireMember letting only the role member through
requireMemberOnly(q) ==
    IF q.user = NoUser THEN Respond(q, 401, "Authentication required.")
    ELSE IF q.user.role # "member"
    THEN Respond(q, 403, "Access denied. Member privileges required.")
    ELSE q

requireMember(q) ==
    IF q.user = NoUser THEN Respond(q, 401, "Authentication required.")
    ELSE IF q.user.role \notin {"member", "admin"}
    THEN Respond(q, 403, "Access denied. Member privileges required.")
    ELSE q

\* validateTenant resolving the path slug before it looks at the user
validateTenantLookupFirst(q) ==
    IF q.slug = "" THEN Respond(q, 400, "Tenant slug is required.")
    ELSE LET tenant == FindTenantBySlug(q.slug) IN
         IF tenant = Null THEN Respond(q, 404, "Tenant not found.")
         ELSE IF q.user # NoUser /\ q.user.tenant.slug # q.slug
         THEN Respond(q, 403, "Access denied. You do not belong to this tenant.")
         ELSE [q EXCEPT !.tenant = tenant]

validateTenant(q) ==
    IF q.slug = "" THEN Respond(q, 400, "Tenant slug is required.")
    ELSE IF q.user # NoUser
    THEN IF q.user.tenant.slug # q.slug
         THEN Respond(q, 403, "Access denied. You do not belong to this tenant.")
         ELSE q
    ELSE LET tenant == FindTenantBySlug(q.slug) IN
         IF tenant = Null THEN Respond(q, 404, "Tenant not found.")
         ELSE [q EXCEPT !.tenant = tenant]

(***************************************************************************)
(* routes/notes.js, routes/tenants.js: the checks wired before a handler   *)
(***************************************************************************)
NoteOps == {"getNotes", "getNote", "createNote", "updateNote", "deleteNote", "getNotesStats"}
AdminOps == {"upgradeTenant", "getTenantUsers", "updateUserRole", "deactivateUser"}
Ops == NoteOps \cup AdminOps

\* the admin routes wired without validateTenant
ChainWithoutTenantCheck(op) ==
    IF op \in NoteOps THEN <<"authenticate", "requireMember">>
    ELSE <<"authenticate", "requireAdmin">>

Chain(op) ==
    IF op \in NoteOps THEN <<"authenticate", "requireMember">>
    ELSE <<"authenticate", "requireAdmin", "validateTenant">>

ApplyCheck(name, q, hdr) ==
    CASE name = "authenticate" -> authenticate(q, hdr)
      [] name = "requireAdmin" -> requireAdmin(q)
      [] name = "requireMember" -> requireMember(q)
      [] OTHER -> validateTenant(q)

\* express runs the next check only when the one before called next()
RECURSIVE RunChain(_, _, _)
RunChain(q, chain, hdr) ==
    IF chain = <<>> \/ ~Forwarded(q) THEN q
    ELSE RunChain(ApplyCheck(Head(chain), q, hdr), Tail(chain), hdr)

\* the handler's synchronous start, up to its first store call
EnterHandler(q, bodyOk) ==
    CASE q.op = "getNotes" -> Await(q, "getNotes.find")
      [] q.op = "getNote" -> Await(q, "getNote.findOne")
      [] q.op = "createNote" ->
            IF ~bodyOk THEN Respond(q, 400, "Validation failed")
            ELSE IF q.tenant.plan = "pro" THEN Await(q, "createNote.create")
            ELSE Await(q, "createNote.count")
      [] q.op = "updateNote" ->
            IF ~bodyOk THEN Respond(q, 400, "Validation failed")
            ELSE Await(q, "updateNote.findOne")
      [] q.op = "deleteNote" -> Await(q, "deleteNote.findOne")
      [] q.op = "getNotesStats" -> Await(q, "getNotesStats.all")
      [] q.op = "upgradeTenant" -> Await(q, "upgradeTenant.findOne")
      [] q.op = "getTenantUsers" -> Await(q, "getTenantUsers.findTenant")
      [] q.op = "updateUserRole" ->
            IF q.val \notin {"admin", "member"}
            THEN Respond(q, 400, "Invalid role. Must be admin or member.")
            ELSE Await(q, "updateUserRole.findTenant")
      [] OTHER -> Await(q, "deactivateUser.findTenant")

Slugs == {"acme", "globex", "initech"}
RoleInputs == {"admin", "member", "owner"}
NoteIdInputs == {NoteId(i) : i \in 1..nextId} \cup {MalformedId}
UserIdInputs == UserIds \cup {GoneUser._id, MalformedId}

\* what a route reads of the request before its handler's first store call
RouteInputs(op) ==
    [slug : IF op \in AdminOps THEN Slugs ELSE {""},
     val : IF op = "updateUserRole" THEN RoleInputs ELSE {""},
     bodyOk : IF op \in {"createNote", "updateNote"} THEN BOOLEAN ELSE {TRUE}]

\* A request arrives: authenticate's user lookup and every check and handler
\* line that runs before the handler's first store call.
Request(r, op, hdr, in) ==
    /\ req[r].pc = "idle"
    /\ \A other \in Reqs : Before(other, r) => req[other].pc # "idle"
    /\ issued < MaxRequests
    /\ LET q0 == [Idle EXCEPT !.op = op, !.slug = in.slug, !.val = in.val]
           q1 == RunChain(q0, Chain(op), hdr)
       IN  req' = [req EXCEPT ![r] = IF Forwarded(q1) THEN EnterHandler(q1, in.bodyOk) ELSE q1]
    /\ issued' = issued + 1
    /\ UNCHANGED <<users, tenants, notes, nextId, now>>

\* the response is sent and the request object is dropped
Finish(r) ==
    /\ req[r].pc = "done"
    /\ req' = [req EXCEPT ![r] = Idle]
    /\ UNCHANGED <<users, tenants, notes, nextId, now, issued>>

(***************************************************************************)
(* controllers/noteController.js                                           *)
(***************************************************************************)
RECURSIVE SortDesc(_)
SortDesc(S) ==
    IF S = {} THEN <<>>
    ELSE LET top == CHOOSE n \in S : \A m \in S : m.createdAt <= n.createdAt
         IN  <<top>> \o SortDesc(S \ {top})

Min(a, b) == IF a < b THEN a ELSE b
CeilDiv(a, b) == (a + b - 1) \div b

Queries == [page : {1, 2}, limit : {2}, search : {"", "b"}]

\* the listing with the tenant filter left out
GetNotesBodyAllTenants(coll, usrs, tenantDoc, query) ==
    LET hits == {n \in coll : /\ n.isArchived = FALSE
                              /\ (query.search # "" => n.content = query.search)}
        sorted == SortDesc({PopulateAuthor(usrs, n) : n \in hits})
        skip == (query.page - 1) * query.limit
        totalNotes == Cardinality(hits)
        totalPages == CeilDiv(totalNotes, query.limit)
    IN  [notes |-> SubSeq(sorted, skip + 1, Min(skip + query.limit, Len(sorted))),
         currentPage |-> query.page, totalPages |-> totalPages,
         totalNotes |-> totalNotes, hasNextPage |-> query.page < totalPages,
         hasPrevPage |-> query.page > 1, limit |-> query.limit]

\* getNotes: the response for a query, given the collections and req.tenant
GetNotesBody(coll, usrs, tenantDoc, query) ==
    LET hits == {n \in coll : /\ n.tenant = tenantDoc._id
                              /\ n.isArchived = FALSE
                              /\ (query.search # "" => n.content = query.search)}
        sorted == SortDesc({PopulateAuthor(usrs, n) : n \in hits})
        skip == (query.page - 1) * query.limit
        totalNotes == Cardinality(hits)
        totalPages == CeilDiv(totalNotes, query.limit)
    IN  [notes |-> SubSeq(sorted, skip + 1, Min(skip + query.limit, Len(sorted))),
         currentPage |-> query.page, totalPages |-> totalPages,
         totalNotes |-> totalNotes, hasNextPage |-> query.page < totalPages,
         hasPrevPage |-> query.page > 1, limit |-> query.limit]

\* getNote: status and body for an id, given the collections and req.tenant
GetNoteResult(coll, usrs, tenantDoc, id) ==
    IF ~IsObjectId(id) THEN [status |-> 404, error |-> "Note not found", body |-> NoBody]
    ELSE LET note == FindNoteInTenant(coll, id, tenantDoc._id) IN
         IF note = Null THEN [status |-> 404, error |-> "Note not found", body |-> NoBody]
         ELSE [status |-> 200, error |-> "", body |-> PopulateAuthor(usrs, note)]

\* getNotesStats: the three queries of its Promise.all
StatsCounts(coll, usrs, tenantDoc) ==
    LET mine == {n \in coll : n.tenant = tenantDoc._id /\ n.isArchived = FALSE}
        authors == {n.author : n \in mine} \cap DOMAIN usrs
    IN  [totalNotes |-> Cardinality(mine),
         notesByUser |-> {[author |-> usrs[a].email,
                           count |-> Cardinality({n \in mine : n.author = a})] : a \in authors},
         recentNotes |-> Cardinality(mine)]

\* getNotesStats: the response, once canCreateNote has answered
StatsBody(counts, tenantDoc, canCreateMore) ==
    [totalNotes |-> counts.totalNotes, recentNotes |-> counts.recentNotes,
     notesByUser |-> counts.notesByUser,
     subscription |-> [plan |-> tenantDoc.plan, maxNotes |-> tenantDoc.max_notes,
                       currentNotes |-> counts.totalNotes,
                       canCreateMore |-> canCreateMore,
                       isPro |-> tenantDoc.plan = "pro"]]

GetNotesFind(r, query) ==
    /\ req[r].pc = "getNotes.find"
    /\ req' = [req EXCEPT ![r] = Reply(@, 200, GetNotesBody(notes, users, @.tenant, query))]
    /\ UNCHANGED <<users, tenants, notes, nextId, now, issued>>

GetNoteFindOne(r, id) ==
    /\ req[r].pc = "getNote.findOne"
    /\ LET res == GetNoteResult(notes, users, req[r].tenant, id)
       IN  req' = [req EXCEPT ![r] = [@ EXCEPT !.pc = "done", !.id = id,
                                                !.status = res.status,
                                                !.error = res.error, !.body = res.body]]
    /\ UNCHANGED <<users, tenants, notes, nextId, now, issued>>

\* createNote inserting the note before the subscription gate is asked
CreateNoteCountAfterInsert(r) ==
    /\ req[r].pc = "createNote.count"
    /\ LET q == [req[r] EXCEPT !.noteCount = CountNotes(notes, req[r].tenant._id)]
       IN  /\ notes' = notes \cup {NewNote(nextId, q.user._id, q.tenant._id, "a")}
           /\ nextId' = nextId + 1
           /\ req' = [req EXCEPT ![r] =
                 IF canCreateNote(q.tenant, notes) THEN Reply(q, 201, NoBody)
                 ELSE Respond(q, 403, "Note limit reached for your subscription plan")]
    /\ UNCHANGED <<users, tenants, now, issued>>

\* canCreateNote's countDocuments and the test on its result
CreateNoteCount(r) ==
    /\ req[r].pc = "createNote.count"
    /\ LET q == [req[r] EXCEPT !.noteCount = CountNotes(notes, req[r].tenant._id)]
       IN  req' = [req EXCEPT ![r] =
                 IF canCreateNote(q.tenant, notes) THEN Await(q, "createNote.create")
                 ELSE Respond(q, 403, "Note limit reached for your subscription plan")]
    /\ UNCHANGED <<users, tenants, notes, nextId, now, issued>>

\* Note.create (pre-save hook, insert) and the populate of the response
CreateNoteCreate(r, content) ==
    /\ req[r].pc = "createNote.create"
    /\ LET q == req[r]
           note == NewNote(nextId, q.user._id, q.tenant._id, content)
       IN  IF PreSaveNote(q.user._id, q.tenant._id) = "ok"
           THEN /\ notes' = notes \cup {note}
                /\ nextId' = nextId + 1
                /\ req' = [req EXCEPT ![r] =
                             Reply([@ EXCEPT !.id = note._id], 201, PopulateAuthor(users, note))]
           ELSE /\ req' = [req EXCEPT ![r] = Respond(@, 500, "Internal server error")]
                /\ UNCHANGED <<notes, nextId>>
    /\ UNCHANGED <<users, tenants, now, issued>>

\* updateNote: the tenant-scoped fetch (author populated) and the ownership check
UpdateNoteFindOne(r, id) ==
    /\ req[r].pc = "updateNote.findOne"
    /\ LET q == [req[r] EXCEPT !.id = id]
           note == FindNoteInTenant(notes, id, q.tenant._id)
       IN  req' = [req EXCEPT ![r] =
                 IF ~IsObjectId(id) \/ note = Null THEN Respond(q, 404, "Note not found")
                 ELSE IF ~canModify(PopulateAuthor(users, note), Oid(q.user._id), q.user.role)
                 THEN Respond(q, 403, "Access denied. You can only edit your own notes.")
                 ELSE Await(q, "updateNote.update")]
    /\ UNCHANGED <<users, tenants, notes, nextId, now, issued>>

\* Note.findByIdAndUpdate(req.params.id, updateData, { new: true }); content = ""
\* stands for a body that sets no field
UpdateNoteUpdate(r, content) ==
    /\ req[r].pc = "updateNote.update"
    /\ LET q == req[r]
           old == FindNoteById(notes, q.id)
           new == IF old = Null \/ content = "" THEN old ELSE [old EXCEPT !.content = content]
       IN  /\ notes' = IF old = Null THEN notes ELSE (notes \ {old}) \cup {new}
           /\ req' = [req EXCEPT ![r] =
                        Reply(@, 200, IF new = Null THEN Null ELSE PopulateAuthor(users, new))]
    /\ UNCHANGED <<users, tenants, nextId, now, issued>>

\* deleteNote: the tenant-scoped fetch (author not populated) and the ownership check
DeleteNoteFindOne(r, id) ==
    /\ req[r].pc = "deleteNote.findOne"
    /\ LET q == [req[r] EXCEPT !.id = id]
           note == FindNoteInTenant(notes, id, q.tenant._id)
       IN  req' = [req EXCEPT ![r] =
                 IF ~IsObjectId(id) \/ note = Null THEN Respond(q, 404, "Note not found")
                 ELSE IF ~canModify(NoteDoc(note), Oid(q.user._id), q.user.role)
                 THEN Respond(q, 403, "Access denied. You can only delete your own notes.")
                 ELSE Await(q, "deleteNote.delete")]
    /\ UNCHANGED <<users, tenants, notes, nextId, now, issued>>

\* the delete that archives the note and keeps it
DeleteNoteArchive(r) ==
    /\ req[r].pc = "deleteNote.delete"
    /\ notes' = {IF n._id = req[r].id THEN [n EXCEPT !.isArchived = TRUE] ELSE n : n \in notes}
    /\ req' = [req EXCEPT ![r] = Reply(@, 200, NoBody)]
    /\ UNCHANGED <<users, tenants, nextId, now, issued>>

\* Note.findByIdAndDelete(req.params.id)
DeleteNoteDelete(r) ==
    /\ req[r].pc = "deleteNote.delete"
    /\ notes' = {n \in notes : n._id # req[r].id}
    /\ req' = [req EXCEPT ![r] = Reply(@, 200, NoBody)]
    /\ UNCHANGED <<users, tenants, nextId, now, issued>>

\* getNotesStats: the Promise.all; a pro tenant's canCreateNote answers at once
GetNotesStatsAll(r) ==
    /\ req[r].pc = "getNotesStats.all"
    /\ LET q == req[r]
           counts == StatsCounts(notes, users, q.tenant)
       IN  req' = [req EXCEPT ![r] =
                 IF q.tenant.plan = "pro" THEN Reply(q, 200, StatsBody(counts, q.tenant, TRUE))
                 ELSE [Await(q, "getNotesStats.canCreate") EXCEPT !.doc = counts]]
    /\ UNCHANGED <<users, tenants, notes, nextId, now, issued>>

GetNotesStatsCanCreate(r) ==
    /\ req[r].pc = "getNotesStats.canCreate"
    /\ req' = [req EXCEPT ![r] =
                 Reply(@, 200, StatsBody(@.doc, @.tenant, canCreateNote(@.tenant, notes)))]
    /\ UNCHANGED <<users, tenants, notes, nextId, now, issued>>

(***************************************************************************)
(* controllers/tenantController.js                                         *)
(***************************************************************************)
\* the checks every admin handler repeats after Tenant.findOne({ slug })
TenantGuard(q, tenant) ==
    IF tenant = Null THEN Respond(q, 404, "Tenant not found")
    ELSE IF q.user.tenant._id # tenant._id
    THEN Respond(q, 403, "Access denied. Not your own tenant.")
    ELSE IF q.user.role # "admin"
    THEN Respond(q, 403, "Access denied. Admin privileges required.")
    ELSE q

UpgradeTenantFindOne(r) ==
    /\ req[r].pc = "upgradeTenant.findOne"
    /\ LET tenant == FindTenantBySlug(req[r].slug)
           q == TenantGuard(req[r], tenant)
       IN  req' = [req EXCEPT ![r] =
                 IF ~Forwarded(q) THEN q
                 ELSE IF tenant.plan = "pro"
                 THEN Respond(q, 400, "Tenant is already on Pro plan")
                 ELSE [Await(q, "upgradeTenant.save") EXCEPT !.doc = tenant]]
    /\ UNCHANGED <<users, tenants, notes, nextId, now, issued>>

\* tenant.upgradeToPro(): save() writes the fields the method set
UpgradeTenantSave(r) ==
    /\ req[r].pc = "upgradeTenant.save"
    /\ LET upgraded == upgradeToPro(req[r].doc)
       IN  /\ tenants' = [tenants EXCEPT ![upgraded._id].plan = upgraded.plan,
                                         ![upgraded._id].max_notes = upgraded.max_notes]
           /\ req' = [req EXCEPT ![r] = Reply(@, 200, upgraded)]
    /\ UNCHANGED <<users, notes, nextId, now, issued>>

GetTenantUsersFindTenant(r) ==
    /\ req[r].pc = "getTenantUsers.findTenant"
    /\ LET q == TenantGuard(req[r], FindTenantBySlug(req[r].slug))
       IN  req' = [req EXCEPT ![r] =
                 IF Forwarded(q) THEN Await(q, "getTenantUsers.find") ELSE q]
    /\ UNCHANGED <<users, tenants, notes, nextId, now, issued>>

\* User.find and User.countDocuments over { tenant, isActive: true }, the default
\* status filter
GetTenantUsersFind(r) ==
    /\ req[r].pc = "getTenantUsers.find"
    /\ LET found == {u \in DOMAIN users : /\ users[u].tenant = req[r].user.tenant._id
                                          /\ users[u].isActive}
       IN  req' = [req EXCEPT ![r] =
                 Reply(@, 200, [users |-> {users[u] : u \in found},
                                totalUsers |-> Cardinality(found)])]
    /\ UNCHANGED <<users, tenants, notes, nextId, now, issued>>

UpdateUserRoleFindTenant(r) ==
    /\ req[r].pc = "updateUserRole.findTenant"
    /\ LET q == TenantGuard(req[r], FindTenantBySlug(req[r].slug))
       IN  req' = [req EXCEPT ![r] =
                 IF Forwarded(q) THEN Await(q, "updateUserRole.findUser") ELSE q]
    /\ UNCHANGED <<users, tenants, notes, nextId, now, issued>>

\* updateUserRole without the self-demotion rule
UpdateUserRoleFindUserNoSelfRule(r, id) ==
    /\ req[r].pc = "updateUserRole.findUser"
    /\ LET q == [req[r] EXCEPT !.id = id]
           userToUpdate == FindUserInTenant(id, q.user.tenant._id)
       IN  req' = [req EXCEPT ![r] =
                 IF ~IsObjectId(id) THEN Respond(q, 500, "Internal server error")
                 ELSE IF userToUpdate = Null THEN Respond(q, 404, "User not found in this tenant")
                 ELSE [Await(q, "updateUserRole.save") EXCEPT !.doc = userToUpdate]]
    /\ UNCHANGED <<users, tenants, notes, nextId, now, issued>>

\* User.findOne({ _id: userId, tenant }) and the self-demotion rule
UpdateUserRoleFindUser(r, id) ==
    /\ req[r].pc = "updateUserRole.findUser"
    /\ LET q == [req[r] EXCEPT !.id = id]
           userToUpdate == FindUserInTenant(id, q.user.tenant._id)
       IN  req' = [req EXCEPT ![r] =
                 IF ~IsObjectId(id) THEN Respond(q, 500, "Internal server error")
                 ELSE IF userToUpdate = Null THEN Respond(q, 404, "User not found in this tenant")
                 ELSE IF ToStr(Oid(userToUpdate._id)) = ToStr(Oid(q.user._id)) /\ q.val # "admin"
                 THEN Respond(q, 400, "You cannot remove your own admin privileges")
                 ELSE [Await(q, "updateUserRole.save") EXCEPT !.doc = userToUpdate]]
    /\ UNCHANGED <<users, tenants, notes, nextId, now, issued>>

\* userToUpdate.role = role; save() writes role only when the assignment changed it
UpdateUserRoleSave(r) ==
    /\ req[r].pc = "updateUserRole.save"
    /\ LET q == req[r]
           saved == [q.doc EXCEPT !.role = q.val]
       IN  /\ users' = IF q.doc.role # q.val
                       THEN [users EXCEPT ![q.id].role = q.val]
                       ELSE users
           /\ req' = [req EXCEPT ![r] = Reply(@, 200, saved)]
    /\ UNCHANGED <<tenants, notes, nextId, now, issued>>

\* deactivateUser tests tenant and role in one condition
DeactivateUserFindTenant(r) ==
    /\ req[r].pc = "deactivateUser.findTenant"
    /\ LET q == req[r]
           tenant == FindTenantBySlug(q.slug)
       IN  req' = [req EXCEPT ![r] =
                 IF tenant = Null THEN Respond(q, 404, "Tenant not found")
                 ELSE IF q.user.tenant._id # tenant._id \/ q.user.role # "admin"
                 THEN Respond(q, 403, "Access denied. Admin privileges required.")
                 ELSE Await(q, "deactivateUser.findUser")]
    /\ UNCHANGED <<users, tenants, notes, nextId, now, issued>>

\* deactivateUser without the self-deactivation rule
DeactivateUserFindUserNoSelfRule(r, id) ==
    /\ req[r].pc = "deactivateUser.findUser"
    /\ LET q == [req[r] EXCEPT !.id = id]
           userToDeactivate == FindUserInTenant(id, q.user.tenant._id)
       IN  req' = [req EXCEPT ![r] =
                 IF ~IsObjectId(id) THEN Respond(q, 500, "Internal server error")
                 ELSE IF userToDeactivate = Null
                 THEN Respond(q, 404, "User not found in this tenant")
                 ELSE [Await(q, "deactivateUser.save") EXCEPT !.doc = userToDeactivate]]
    /\ UNCHANGED <<users, tenants, notes, nextId, now, issued>>

\* User.findOne({ _id: userId, tenant }) and the self-deactivation rule
DeactivateUserFindUser(r, id) ==
    /\ req[r].pc = "deactivateUser.findUser"
    /\ LET q == [req[r] EXCEPT !.id = id]
           userToDeactivate == FindUserInTenant(id, q.user.tenant._id)
       IN  req' = [req EXCEPT ![r] =
                 IF ~IsObjectId(id) THEN Respond(q, 500, "Internal server error")
                 ELSE IF userToDeactivate = Null
                 THEN Respond(q, 404, "User not found in this tenant")
                 ELSE IF ToStr(Oid(userToDeactivate._id)) = ToStr(Oid(q.user._id))
                 THEN Respond(q, 400, "You cannot deactivate your own account")
                 ELSE [Await(q, "deactivateUser.save") EXCEPT !.doc = userToDeactivate]]
    /\ UNCHANGED <<users, tenants, notes, nextId, now, issued>>

\* userToDeactivate.isActive = false; save()
DeactivateUserSave(r) ==
    /\ req[r].pc = "deactivateUser.save"
    /\ users' = IF req[r].doc.isActive
                THEN [users EXCEPT ![req[r].id].isActive = FALSE]
                ELSE users
    /\ req' = [req EXCEPT ![r] = Reply(@, 200, NoBody)]
    /\ UNCHANGED <<tenants, notes, nextId, now, issued>>

(***************************************************************************)
(* The system: the seeded store, every seeded user logged in once          *)
(***************************************************************************)
Init ==
    /\ users = SeedUsers
    /\ tenants = SeedTenants
    /\ notes = SeedNotes
    /\ nextId = Cardinality(SeedNotes) + 1
    /\ now = 0
    /\ req = [r \in Reqs |-> Idle]
    /\ issued = 0

Step(r) ==
    \/ \E op \in Ops, hdr \in Headers : \E in \in RouteInputs(op) : Request(r, op, hdr, in)
    \/ \E query \in Queries : GetNotesFind(r, query)
    \/ \E id \in NoteIdInputs : GetNoteFindOne(r, id)
    \/ CreateNoteCount(r)
    \/ \E content \in Contents : CreateNoteCreate(r, content)
    \/ \E id \in NoteIdInputs : UpdateNoteFindOne(r, id)
    \/ \E content \in Contents \cup {""} : UpdateNoteUpdate(r, content)
    \/ \E id \in NoteIdInputs : DeleteNoteFindOne(r, id)
    \/ DeleteNoteDelete(r)
    \/ GetNotesStatsAll(r)
    \/ GetNotesStatsCanCreate(r)
    \/ UpgradeTenantFindOne(r)
    \/ UpgradeTenantSave(r)
    \/ GetTenantUsersFindTenant(r)
    \/ GetTenantUsersFind(r)
    \/ UpdateUserRoleFindTenant(r)
    \/ \E id \in UserIdInputs : UpdateUserRoleFindUser(r, id)
    \/ UpdateUserRoleSave(r)
    \/ DeactivateUserFindTenant(r)
    \/ \E id \in UserIdInputs : DeactivateUserFindUser(r, id)
    \/ DeactivateUserSave(r)
    \/ Finish(r)

Next == \E r \in Reqs : Step(r)

Spec == Init /\ [][Next]_vars

(***************************************************************************)
(* The system with creations processed one at a time: a request passes the *)
(* gate (or, for a pro tenant, skips it) only while no other request       *)
(* stands between its gate and its Note.create.  Everything else           *)
(* interleaves as in Spec.                                                 *)
(***************************************************************************)
Creating(q) == q.pc = "createNote.create"

OneCreationAtATime(r) ==
    (Creating(req'[r]) /\ ~Creating(req[r])) =>
        \A other \in Reqs \ {r} : ~Creating(req[other])

NextSerial == \E r \in Reqs : Step(r) /\ OneCreationAtATime(r)

SpecSerial == Init /\ [][NextSerial]_vars

(***************************************************************************)
(* Subscription quota                                                      *)
(***************************************************************************)
QuotaHolds ==
    \A t \in DOMAIN tenants :
        tenants[t].plan = "free" => CountNotes(notes, t) <= tenants[t].max_notes

\* a step of createNote's gate taken while the caller's free tenant is at its limit
GateRejectsAtLimit ==
    \A r \in Reqs :
        (/\ req[r].pc = "createNote.count"
         /\ req'[r] # req[r]
         /\ tenants[req[r].tenant._id].plan = "free"
         /\ CountNotes(notes, req[r].tenant._id) >= tenants[req[r].tenant._id].max_notes)
        => /\ req'[r].pc = "done"
           /\ req'[r].status = 403
           /\ notes' = notes

\* C1: with creations processed one at a time, a free tenant's note count never
\* exceeds its max_notes, and a createNote that finds the tenant at its limit
\* responds 403 and creates no note.
C1_QuotaOneAtATime == []QuotaHolds /\ [][GateRejectsAtLimit]_vars

\* a createNote was answered 403 while its free tenant holds exactly max_notes notes
C1_Witness ==
    \E r \in Reqs :
        /\ req[r].op = "createNote"
        /\ req[r].pc = "done"
        /\ req[r].status = 403
        /\ tenants[req[r].tenant._id].plan = "free"
        /\ CountNotes(notes, req[r].tenant._id) = tenants[req[r].tenant._id].max_notes

\* no note was ever removed: every id handed out is still in the collection
NoDeletes == \A i \in 1..(nextId - 1) : \E n \in notes : n._id = NoteId(i)

\* an answered createNote whose gate counted one note less than its free tenant's limit
PassedAtBoundary(q) ==
    /\ q.op = "createNote"
    /\ q.pc = "done"
    /\ q.user # NoUser
    /\ q.tenant.plan = "free"
    /\ q.noteCount = q.tenant.max_notes - 1

\* two such requests of one tenant with no deletion in the behaviour: the second
\* gate ran before the first Note.create
RacedAtBoundary(r1, r2) ==
    /\ r1 # r2
    /\ PassedAtBoundary(req[r1])
    /\ PassedAtBoundary(req[r2])
    /\ req[r1].tenant._id = req[r2].tenant._id
    /\ NoDeletes

\* C2: two createNote requests of a free tenant holding max_notes - 1 notes that
\* both pass the gate before either commits both respond 201 with a note of their
\* own, and the tenant ends with max_notes + 1 notes.
C2_RaceExceedsLimit ==
    \A r1, r2 \in Reqs :
        RacedAtBoundary(r1, r2) =>
            /\ req[r1].status = 201
            /\ req[r2].status = 201
            /\ req[r1].id # req[r2].id
            /\ \A r \in {r1, r2} :
                  \E n \in notes : n._id = req[r].id /\ n.tenant = req[r].tenant._id
                                                    /\ n.author = req[r].user._id
            /\ CountNotes(notes, req[r1].tenant._id) = req[r1].tenant.max_notes + 1

\* both requests of the race are answered and the tenant is one note over its limit
C2_Witness ==
    \E r1, r2 \in Reqs :
        /\ RacedAtBoundary(r1, r2)
        /\ tenants[req[r1].tenant._id].plan = "free"
        /\ CountNotes(notes, req[r1].tenant._id) = tenants[req[r1].tenant._id].max_notes + 1

(***************************************************************************)
(* The gate over arbitrary stores: any plan with any max_notes for one     *)
(* tenant, any set of notes, archived or not.  The requests that call      *)
(* canCreateNote run one at a time and nothing writes.                     *)
(***************************************************************************)
StoredNote(i, author, tenant, archived) ==
    [NewNote(i, author, tenant, "a") EXCEPT !.isArchived = archived]

GateNotes ==
    {StoredNote(1, "u_user_acme", "t_acme", FALSE),
     StoredNote(2, "u_admin_acme", "t_acme", TRUE),
     StoredNote(3, "u_user_acme", "t_acme", TRUE),
     StoredNote(4, "u_admin_acme", "t_acme", FALSE),
     StoredNote(5, "u_user_globex", "t_globex", FALSE)}

GateTenants ==
    {[SeedTenants EXCEPT !["t_acme"].plan = p, !["t_acme"].max_notes = m] :
        p \in Plans, m \in {1, DefaultMaxNotes, Unlimited}}

InitGate ==
    /\ users = SeedUsers
    /\ tenants \in GateTenants
    /\ notes \in SUBSET GateNotes
    /\ nextId = Cardinality(GateNotes) + 1
    /\ now = 0
    /\ req = [r \in Reqs |-> Idle]
    /\ issued = 0

GateStep(r) ==
    \/ \E op \in {"createNote", "getNotesStats"}, hdr \in Headers :
          \E in \in RouteInputs(op) : Request(r, op, hdr, in)
    \/ CreateNoteCount(r)
    \/ GetNotesStatsAll(r)
    \/ GetNotesStatsCanCreate(r)
    \/ Finish(r)

NextGate ==
    \E r \in Reqs : (\A other \in Reqs \ {r} : req[other].pc = "idle") /\ GateStep(r)

SpecGate == InitGate /\ [][NextGate]_vars

\* what the gate is to answer for tenant t on the current store
MayCreate(t) ==
    \/ tenants[t].plan = "pro"
    \/ /\ tenants[t].plan = "free"
       /\ Cardinality({n \in notes : n.tenant = t}) < tenants[t].max_notes

\* C3: canCreateNote(T) is true iff T is pro, or T is free and the number of notes
\* of T, archived ones included, is below T's max_notes; createNote and
\* getNotesStats answer by that value.
C3_GateDecision ==
    /\ \A t \in DOMAIN tenants :
          LET count == Cardinality({n \in notes : n.tenant = t}) IN
          /\ canCreateNote(tenants[t], notes) = MayCreate(t)
          /\ tenants[t].plan = "pro" => canCreateNote(tenants[t], notes)
          /\ (tenants[t].plan = "free" /\ count = tenants[t].max_notes)
                => ~canCreateNote(tenants[t], notes)
          /\ (tenants[t].plan = "free" /\ count = tenants[t].max_notes - 1)
                => canCreateNote(tenants[t], notes)
    /\ \A r \in Reqs :
          /\ (req[r].op = "createNote" /\ req[r].pc = "createNote.create")
                => MayCreate(req[r].tenant._id)
          /\ (req[r].op = "createNote" /\ req[r].pc = "done" /\ req[r].status = 403)
                => ~MayCreate(req[r].tenant._id)
          /\ (req[r].op = "getNotesStats" /\ req[r].pc = "done" /\ req[r].status = 200)
                => req[r].body.subscription.canCreateMore = MayCreate(req[r].tenant._id)

\* a createNote refused for a free tenant that its archived notes bring to the limit
C3_Witness ==
    \E r \in Reqs :
        LET t == req[r].tenant._id IN
        /\ req[r].op = "createNote"
        /\ req[r].pc = "done"
        /\ req[r].status = 403
        /\ tenants[t].plan = "free"
        /\ CountNotes(notes, t) = tenants[t].max_notes
        /\ \E n \in notes : n.tenant = t /\ n.isArchived

(***************************************************************************)
(* Tenant isolation of notes                                               *)
(***************************************************************************)
\* a stored note with this id belongs to another tenant than q's user
ForeignNote(q, id) == \E n \in notes : n._id = id /\ n.tenant # q.user.tenant._id

\* the fetch step of getNote, updateNote or deleteNote on a foreign note's id
ForeignFetchAnswers404 ==
    \A r \in Reqs :
        (/\ req[r].pc \in {"getNote.findOne", "updateNote.findOne", "deleteNote.findOne"}
         /\ req'[r] # req[r]
         /\ ForeignNote(req[r], req'[r].id))
        => /\ req'[r].pc = "done"
           /\ req'[r].status = 404
           /\ notes' = notes

\* a note changed or removed by a step: the step is the write of an updateNote or
\* deleteNote on that note by a user of the note's tenant
WritesStayInTenant ==
    \A n \in notes :
        n \notin notes' =>
            \E r \in Reqs :
                /\ req[r].pc \in {"updateNote.update", "deleteNote.delete"}
                /\ req'[r].pc = "done"
                /\ req[r].id = n._id
                /\ req[r].user.tenant._id = n.tenant

\* C4: getNote, updateNote and deleteNote by a user of any role on a note of
\* another tenant respond 404 before canModify and leave the note as it is; a
\* note is only ever modified or deleted by a request of a user of its tenant.
C4_WriteIsolation == [][ForeignFetchAnswers404 /\ WritesStayInTenant]_vars

\* admins were answered 404 by updateNote and by deleteNote on a stored foreign note
C4_Witness ==
    \E r1, r2 \in Reqs :
        /\ req[r1].op = "updateNote" /\ req[r2].op = "deleteNote"
        /\ \A r \in {r1, r2} :
              /\ req[r].pc = "done"
              /\ req[r].status = 404
              /\ req[r].user # NoUser
              /\ req[r].user.role = "admin"
              /\ ForeignNote(req[r], req[r].id)

\* other contents tenant b's notes could have: none, one note less, one note more,
\* one note with another text
NotesVariants(b) ==
    LET own == {n \in notes : n.tenant = b}
        author == CHOOSE u \in DOMAIN users : users[u].tenant = b
    IN  {{}}
        \cup {own \ {n} : n \in own}
        \cup {own \cup {NewNote(nextId, author, b, "b")}}
        \cup {(own \ {n}) \cup {[n EXCEPT !.content = "b"]} : n \in own}

\* the tenant documents a request of tenant a can carry: the stored one and the
\* ones attached to the requests in flight
TenantDocs(a) ==
    {tenants[a]} \cup {req[r].tenant : r \in {x \in Reqs : /\ req[x].tenant # NoTenant
                                                           /\ req[x].tenant._id = a}}

\* the three read handlers answer alike over the collections c1 and c2
SameResponses(tenantDoc, c1, c2) ==
    /\ \A query \in Queries :
          GetNotesBody(c1, users, tenantDoc, query) = GetNotesBody(c2, users, tenantDoc, query)
    /\ \A id \in NoteIdInputs :
          GetNoteResult(c1, users, tenantDoc, id) = GetNoteResult(c2, users, tenantDoc, id)
    /\ StatsBody(StatsCounts(c1, users, tenantDoc), tenantDoc, canCreateNote(tenantDoc, c1))
          = StatsBody(StatsCounts(c2, users, tenantDoc), tenantDoc, canCreateNote(tenantDoc, c2))

\* C5: a store that differs from the current one only in the notes of tenant b
\* gives every getNotes, getNote and getNotesStats of another tenant a the same
\* response; getNote on the id of a note of b answers as on an id stored nowhere.
C5_ReadIsolation ==
    \A a \in DOMAIN tenants : \A b \in DOMAIN tenants \ {a} : \A tenantDoc \in TenantDocs(a) :
        /\ \A variant \in NotesVariants(b) :
              SameResponses(tenantDoc, notes, {n \in notes : n.tenant # b} \cup variant)
        /\ \A n \in {m \in notes : m.tenant = b} :
              /\ GetNoteResult(notes, users, tenantDoc, n._id).status = 404
              /\ GetNoteResult(notes, users, tenantDoc, n._id)
                    = GetNoteResult(notes, users, tenantDoc, NoteId(nextId))

\* a getNote was answered 404 on the id of a stored note of another tenant
C5_Witness ==
    \E r \in Reqs :
        /\ req[r].op = "getNote"
        /\ req[r].pc = "done"
        /\ req[r].status = 404
        /\ req[r].user # NoUser
        /\ ForeignNote(req[r], req[r].id)

(***************************************************************************)
(* Ownership policy                                                        *)
(***************************************************************************)
\* a stored note of q's tenant with this id
OwnTenantNotes(q, id) == {n \in notes : n._id = id /\ n.tenant = q.user.tenant._id}

\* canModify denies a member on every note of the tenant written by somebody else,
\* whichever way the note was loaded
MemberDeniedOnOthersNotes ==
    \A u \in DOMAIN users : \A n \in notes :
        (users[u].role = "member" /\ n.tenant = users[u].tenant /\ n.author # u)
        => /\ ~canModify(NoteDoc(n), Oid(u), users[u].role)
           /\ ~canModify(PopulateAuthor(users, n), Oid(u), users[u].role)

\* the fetch step of updateNote or deleteNote by a member on somebody else's note
MemberFetchAnswers403 ==
    \A r \in Reqs :
        (/\ req[r].pc \in {"updateNote.findOne", "deleteNote.findOne"}
         /\ req'[r] # req[r]
         /\ req[r].user.role = "member"
         /\ \E n \in OwnTenantNotes(req[r], req'[r].id) : n.author # req[r].user._id)
        => /\ req'[r].pc = "done"
           /\ req'[r].status = 403
           /\ notes' = notes

\* C6: for a member U and a note N of U's tenant whose author is not U,
\* canModify(N, U) is false, and updateNote and deleteNote by U on N respond 403
\* and leave N neither updated nor deleted.
C6_MemberForbidden == []MemberDeniedOnOthersNotes /\ [][MemberFetchAnswers403]_vars

\* members were answered 403 by updateNote and by deleteNote on notes of their
\* tenant written by others, and the notes are still stored
C6_Witness ==
    \E r1, r2 \in Reqs :
        /\ req[r1].op = "updateNote" /\ req[r2].op = "deleteNote"
        /\ \A r \in {r1, r2} :
              /\ req[r].pc = "done"
              /\ req[r].status = 403
              /\ req[r].user.role = "member"
              /\ \E n \in OwnTenantNotes(req[r], req[r].id) : n.author # req[r].user._id

\* C7: updateNote and deleteNote take the same allow/deny decision for every
\* (note, acting user) pair, and a member who wrote a note of their tenant is
\* refused by neither.
C7_SameDecision ==
    \A r \in Reqs :
        (/\ req[r].op \in {"updateNote", "deleteNote"}
         /\ req[r].pc = "done"
         /\ req[r].user # NoUser)
        => \A n \in OwnTenantNotes(req[r], req[r].id) :
              /\ canModify(PopulateAuthor(users, n), Oid(req[r].user._id), req[r].user.role)
                    = canModify(NoteDoc(n), Oid(req[r].user._id), req[r].user.role)
              /\ (req[r].user.role = "member" /\ n.author = req[r].user._id)
                    => req[r].status # 403

AdminAllowedOnEveryNote ==
    \A u \in DOMAIN users : \A n \in notes :
        users[u].role = "admin" =>
            /\ canModify(NoteDoc(n), Oid(u), users[u].role)
            /\ canModify(PopulateAuthor(users, n), Oid(u), users[u].role)

\* updateNote and deleteNote by an admin: the fetch of a note of the admin's tenant
\* goes on to the write, the write answers 200, the fetch of a note of another
\* tenant answers 404 and never reaches canModify
AdminActsTenantWide ==
    \A r \in Reqs :
        /\ (/\ req[r].pc \in {"updateNote.findOne", "deleteNote.findOne"}
            /\ req'[r] # req[r]
            /\ req[r].user.role = "admin")
           => /\ OwnTenantNotes(req[r], req'[r].id) # {}
                    => /\ req'[r].pc = (IF req[r].op = "updateNote" THEN "updateNote.update"
                                         ELSE "deleteNote.delete")
                       /\ req'[r].status = 0
              /\ ForeignNote(req[r], req'[r].id)
                    => /\ req'[r].pc = "done"
                       /\ req'[r].status = 404
                       /\ notes' = notes
        /\ (/\ req[r].pc \in {"updateNote.update", "deleteNote.delete"}
            /\ req'[r] # req[r])
           => /\ req'[r].pc = "done"
              /\ req'[r].status = 200
              /\ req[r].op = "deleteNote" => \A n \in notes' : n._id # req[r].id

Admissible(hdr) ==
    LET token == StripBearer(hdr) IN
    /\ token # EmptyCred
    /\ token.sig = Sign(token.payload, JWT_SECRET)
    /\ now < token.payload.exp
    /\ token.payload.userId \in DOMAIN users
    /\ users[token.payload.userId].isActive

\* the stored user with its tenant joined
StoredUser(u) == [users[u] EXCEPT !.tenant = tenants[users[u].tenant]]

\* C9: authenticate forwards iff the header carries a token that verifies
\* (signature, expiry) and names a stored user whose isActive is true, and then
\* attaches that user and the user's own tenant; in every other case it responds
\* 401, attaches nothing and does not forward.
C9_Authenticate ==
    /\ \A hdr \in Headers :
          LET q == authenticate([Idle EXCEPT !.op = "getNotes"], hdr)
              u == StripBearer(hdr).payload.userId
          IN  IF Admissible(hdr)
              THEN /\ Forwarded(q) /\ q.pc # "done"
                   /\ q.user = StoredUser(u)
                   /\ q.tenant = tenants[users[u].tenant]
              ELSE /\ q.pc = "done" /\ q.status = 401
                   /\ q.user = NoUser /\ q.tenant = NoTenant
    /\ \A r \in Reqs :
          /\ req[r].user # NoUser
                => /\ req[r].user._id \in DOMAIN users
                   /\ req[r].user.isActive
                   /\ req[r].tenant = req[r].user.tenant
                   /\ req[r].tenant._id = users[req[r].user._id].tenant
          /\ (req[r].op # "none" /\ req[r].user = NoUser)
                => /\ req[r].pc = "done" /\ req[r].status = 401
                   /\ req[r].tenant = NoTenant /\ req[r].body = NoBody

\* a request with the verifying token of a user deactivated since was answered 401
C9_Witness ==
    \E r \in Reqs : \E u \in DOMAIN users :
        /\ ~users[u].isActive
        /\ req[r].pc = "done"
        /\ req[r].status = 401
        /\ req[r].error = "Account is deactivated."
        /\ req[r].user = NoUser
        /\ \E hdr \in Headers :
              /\ StripBearer(hdr) # EmptyCred
              /\ StripBearer(hdr).payload.userId = u
              /\ JwtVerifies(StripBearer(hdr), JWT_SECRET, now)

(***************************************************************************)
(* The role checks on their own: a request stands before a role check with *)
(* no user attached, or with a user of any role value, and one of the two  *)
(* checks runs on it.                                                      *)
(***************************************************************************)
RoleValues == {"admin", "member", "owner", ""}

GuardContexts ==
    {[Idle EXCEPT !.pc = "check"]}
    \cup {[Idle EXCEPT !.pc = "check",
                       !.user = [SeedUsers[u] EXCEPT !.role = role,
                                                     !.tenant = SeedTenants[SeedUsers[u].tenant]],
                       !.tenant = SeedTenants[SeedUsers[u].tenant]] :
             u \in UserIds, role \in RoleValues}

InitGuards ==
    /\ users = SeedUsers
    /\ tenants = SeedTenants
    /\ notes = SeedNotes
    /\ nextId = Cardinality(SeedNotes) + 1
    /\ now = 0
    /\ req \in [Reqs -> GuardContexts]
    /\ issued = 0

\* next() was called: the request goes on to what is wired after the check
CallNext(q) == IF Forwarded(q) THEN Await(q, "next") ELSE q

RequireAdminCheck(r) ==
    /\ req[r].pc = "check"
    /\ req' = [req EXCEPT ![r] = CallNext(requireAdmin([@ EXCEPT !.op = "requireAdmin"]))]
    /\ UNCHANGED <<users, tenants, notes, nextId, now, issued>>

RequireMemberCheck(r) ==
    /\ req[r].pc = "check"
    /\ req' = [req EXCEPT ![r] = CallNext(requireMember([@ EXCEPT !.op = "requireMember"]))]
    /\ UNCHANGED <<users, tenants, notes, nextId, now, issued>>

NextGuards == \E r \in Reqs : RequireAdminCheck(r) \/ RequireMemberCheck(r)

SpecGuards == InitGuards /\ [][NextGuards]_vars

Rejected(q, status) == q.pc = "done" /\ q.status = status
WentOn(q) == q.pc = "next" /\ q.status = 0

\* C10: requireAdmin and requireMember respond 401 when no user is attached; with a
\* user attached requireAdmin forwards iff the role is admin and otherwise
\* responds 403, and requireMember forwards for member and for admin and responds
\* 403 for any other role value.
C10_RoleChecks ==
    \A r \in Reqs :
        LET q == req[r] IN
        /\ q.op = "requireAdmin" =>
              IF q.user = NoUser THEN Rejected(q, 401)
              ELSE IF q.user.role = "admin" THEN WentOn(q)
              ELSE Rejected(q, 403)
        /\ q.op = "requireMember" =>
              IF q.user = NoUser THEN Rejected(q, 401)
              ELSE IF q.user.role \in {"member", "admin"} THEN WentOn(q)
              ELSE Rejected(q, 403)

\* requireMember let an admin through and requireAdmin refused a member
C10_Witness ==
    \E r1, r2 \in Reqs :
        /\ req[r1].op = "requireMember"
        /\ req[r1].user # NoUser
        /\ req[r1].user.role = "admin"
        /\ WentOn(req[r1])
        /\ req[r2].op = "requireAdmin"
        /\ req[r2].user # NoUser
        /\ req[r2].user.role = "member"
        /\ Rejected(req[r2], 403)

(***************************************************************************)
(* validateTenant on its own: a request with a path slug stands before the *)
(* check, with a seeded user and the user's tenant attached or with        *)
(* nothing attached.                                                       *)
(***************************************************************************)
\* :slug always matches at least one character
PathSlugs == Slugs \cup {"Acme"}

TenantContexts ==
    {[Idle EXCEPT !.pc = "check", !.slug = slug] : slug \in PathSlugs}
    \cup {[Idle EXCEPT !.pc = "check", !.slug = slug,
                       !.user = [SeedUsers[u] EXCEPT !.tenant = SeedTenants[SeedUsers[u].tenant]],
                       !.tenant = SeedTenants[SeedUsers[u].tenant]] :
             u \in UserIds, slug \in PathSlugs}

InitTenantCheck ==
    /\ users = SeedUsers
    /\ tenants = SeedTenants
    /\ notes = SeedNotes
    /\ nextId = Cardinality(SeedNotes) + 1
    /\ now = 0
    /\ req \in [Reqs -> TenantContexts]
    /\ issued = 0

ValidateTenantCheck(r) ==
    /\ req[r].pc = "check"
    /\ req' = [req EXCEPT ![r] = CallNext(validateTenant([@ EXCEPT !.op = "validateTenant"]))]
    /\ UNCHANGED <<users, tenants, notes, nextId, now, issued>>

NextTenantCheck == \E r \in Reqs : ValidateTenantCheck(r)

SpecTenantCheck == InitTenantCheck /\ [][NextTenantCheck]_vars

\* the outcome of a validateTenant step, by what the request carried before it
ValidateTenantOutcome ==
    \A r \in Reqs :
        (req[r].pc = "check" /\ req'[r] # req[r]) =>
            LET before == req[r]
                after == req'[r]
                named == {t \in DOMAIN tenants : tenants[t].slug = before.slug}
            IN  IF before.user # NoUser
                THEN /\ after.tenant = before.tenant
                     /\ after.user = before.user
                     /\ IF before.user.tenant.slug = before.slug
                        THEN WentOn(after)
                        ELSE Rejected(after, 403)
                ELSE IF named = {}
                THEN Rejected(after, 404) /\ after.tenant = NoTenant
                ELSE WentOn(after) /\ \E t \in named : after.tenant = tenants[t]

\* C11: with a user attached validateTenant forwards iff the path slug equals the
\* user's tenant slug exactly and otherwise responds 403, whether or not the slug
\* names a tenant, and never replaces req.tenant; with no user attached it
\* responds 404 for a slug that names no tenant and otherwise attaches the tenant
\* of that slug and forwards.
C11_ValidateTenant == [][ValidateTenantOutcome]_vars

\* a request with a user was refused 403 and a request without a user went on
\* with the tenant of its path slug attached
C11_Witness ==
    \E r1, r2 \in Reqs :
        /\ req[r1].op = "validateTenant" /\ req[r2].op = "validateTenant"
        /\ req[r1].user # NoUser
        /\ Rejected(req[r1], 403)
        /\ req[r1].tenant = req[r1].user.tenant
        /\ req[r2].user = NoUser
        /\ WentOn(req[r2])
        /\ req[r2].tenant # NoTenant
        /\ req[r2].tenant.slug = req[r2].slug

(***************************************************************************)
(* Admin routes                                                            *)
(***************************************************************************)
\* a request on an admin route that is inside its handler carries an admin whose
\* tenant slug is the path slug
HandlerOnlyForOwnAdmin ==
    \A r \in Reqs :
        (req[r].op \in AdminOps /\ req[r].pc \notin {"idle", "done"})
        => /\ req[r].user # NoUser
           /\ req[r].user.role = "admin"
           /\ req[r].user.tenant.slug = req[r].slug

\* the arrival of a request on an admin route that authenticate let through:
\* whatever header and path it came with, a user who is not an admin or whose
\* tenant slug is not the path slug is answered 403 and no record changes
AdminChainRejects ==
    \A r \in Reqs :
        (/\ req[r].pc = "idle"
         /\ req'[r].pc # "idle"
         /\ req'[r].op \in AdminOps
         /\ req'[r].user # NoUser)
        => \A hdr \in Headers : \A in \in RouteInputs(req'[r].op) :
              (/\ Request(r, req'[r].op, hdr, in)
               /\ \/ req'[r].user.role # "admin"
                  \/ req'[r].user.tenant.slug # in.slug)
              => /\ Rejected(req'[r], 403)
                 /\ UNCHANGED <<users, tenants, notes>>

\* C12: on the admin routes (upgrade, list users, update role, deactivate) an
\* authenticated user who is not an admin, or whose tenant slug is not the path
\* slug, is answered 403 by the chain; the handler never runs for the request and
\* no User or Tenant record changes.
C12_AdminRoutesGuarded == []HandlerOnlyForOwnAdmin /\ [][AdminChainRejects]_vars

\* a member was refused on an admin route by the role check and an admin by the
\* tenant check
C12_Witness ==
    \E r1, r2 \in Reqs :
        /\ req[r1].op \in AdminOps /\ req[r2].op \in AdminOps
        /\ req[r1].user # NoUser /\ req[r2].user # NoUser
        /\ req[r1].user.role = "member"
        /\ Rejected(req[r1], 403)
        /\ req[r2].user.role = "admin"
        /\ Rejected(req[r2], 403)
        /\ req[r2].error = "Access denied. You do not belong to this tenant."

(***************************************************************************)
(* The chain check by check: one request arrives and express runs the      *)
(* checks wired on its route one step at a time, the next one when the one *)
(* before called next(), then the handler.  The request's body field       *)
(* carries the log of the dispatch until the handler replies.  The store   *)
(* is the seeded one, possibly with one user deactivated.                  *)
(***************************************************************************)
Arriving(op, hdr, in) ==
    [Idle EXCEPT !.pc = "chain", !.op = op, !.slug = in.slug, !.val = in.val,
                 !.body = [ran |-> <<>>, left |-> Chain(op), hdr |-> hdr,
                           bodyOk |-> in.bodyOk]]

ArrivingRequests ==
    UNION {{Arriving(op, hdr, in) : hdr \in Headers, in \in RouteInputs(op)} : op \in Ops}

InitChain ==
    /\ users \in {SeedUsers, [SeedUsers EXCEPT !["u_user_acme"].isActive = FALSE]}
    /\ tenants = SeedTenants
    /\ notes = SeedNotes
    /\ nextId = Cardinality(SeedNotes) + 1
    /\ now = 0
    /\ \E a \in ArrivingRequests : req = [r \in Reqs |-> IF r = "r1" THEN a ELSE Idle]
    /\ issued = 1

InChain(q) == q.pc = "chain"
InHandler(q) == q.pc \notin {"idle", "chain", "done"}

\* express calls the next check of the route
CheckStep(r) ==
    /\ InChain(req[r])
    /\ req[r].body.left # <<>>
    /\ LET q == req[r]
           name == Head(q.body.left)
           logged == [q EXCEPT !.body.ran = Append(@, name), !.body.left = Tail(@)]
       IN  req' = [req EXCEPT ![r] = ApplyCheck(name, logged, q.body.hdr)]
    /\ UNCHANGED <<users, tenants, notes, nextId, now, issued>>

\* the last check called next(): express calls the handler
HandlerStart(r) ==
    /\ InChain(req[r])
    /\ req[r].body.left = <<>>
    /\ req' = [req EXCEPT ![r] = EnterHandler(@, @.body.bodyOk)]
    /\ UNCHANGED <<users, tenants, notes, nextId, now, issued>>

HandlerStep(r) == InHandler(req[r]) /\ Step(r)

NextChain == \E r \in Reqs : CheckStep(r) \/ HandlerStart(r) \/ HandlerStep(r)

\* the event loop runs every callback that is ready and the store answers every call
SpecChain == InitChain /\ [][NextChain]_vars /\ WF_vars(NextChain)

Responded(q) == q.status # 0
HasLog(q) == q.body # NoBody /\ "ran" \in DOMAIN q.body

\* a request that was answered is done, the checks run in the order of the route
\* and each at most once, and a handler runs only after all of them
ChainOrdered ==
    \A r \in Reqs :
        LET q == req[r] IN
        /\ Responded(q) <=> q.pc = "done"
        /\ HasLog(q) => q.body.ran \o q.body.left = Chain(q.op)
        /\ InHandler(q) => /\ HasLog(q)
                           /\ q.body.ran = Chain(q.op)
                           /\ q.user # NoUser
        /\ (InChain(q) /\ q.body.left = <<>>) =>
              [q EXCEPT !.pc = "idle", !.body = NoBody]
                = RunChain([Idle EXCEPT !.op = q.op, !.slug = q.slug, !.val = q.val],
                           Chain(q.op), q.body.hdr)

\* a check forwards or responds, never both and never neither; nothing runs for a
\* request that was answered
ChainShortCircuits ==
    \A r \in Reqs :
        /\ (InChain(req[r]) /\ req[r].body.left # <<>> /\ req'[r] # req[r])
           => \/ Rejected(req'[r], req'[r].status) /\ Responded(req'[r])
              \/ InChain(req'[r]) /\ ~Responded(req'[r])
        /\ Responded(req[r]) => req'[r] = req[r]
        /\ (InHandler(req'[r]) /\ ~InHandler(req[r]))
           => InChain(req[r]) /\ req[r].body.left = <<>> /\ ~Responded(req[r])

\* C13: each check either forwards or responds; after a response no later check
\* and no handler runs; a handler runs only after authenticate and every check
\* wired before it have forwarded; every request receives exactly one response.
C13_ChainPipeline ==
    /\ []ChainOrdered
    /\ [][ChainShortCircuits]_vars
    /\ \A r \in Reqs : (req[r].pc # "idle") ~> (req[r].pc = "done")

\* a request on an admin route was answered 403 by the second of its three checks
C13_Witness ==
    \E r \in Reqs :
        /\ req[r].op \in AdminOps
        /\ Rejected(req[r], 403)
        /\ HasLog(req[r])
        /\ req[r].body.ran = <<"authenticate", "requireAdmin">>
        /\ req[r].body.left = <<"validateTenant">>

\* the target of an administration request is a stored user of the acting user's tenant
TargetInOwnTenant(q, id) ==
    /\ id \in DOMAIN users
    /\ users[id].tenant = q.user.tenant._id

\* a request that asks to take the acting admin's own role away never reaches the write
SelfDemotionNeverSaved ==
    \A r \in Reqs :
        /\ req[r].pc \in {"updateUserRole.findTenant", "updateUserRole.findUser",
                          "updateUserRole.save"} => req[r].val \in {"admin", "member"}
        /\ req[r].pc = "updateUserRole.save" =>
              req[r].id # req[r].user._id \/ req[r].val = "admin"

\* the step that looks the target up answers 400 for a self-demotion and changes
\* nothing; for role admin or another user of the tenant it goes on to the write,
\* and the write sets the role of the target only
SelfDemotionRule ==
    \A r \in Reqs :
        LET q == req[r]
            q2 == req'[r]
        IN  /\ (q.pc = "updateUserRole.findUser" /\ q2 # q /\ TargetInOwnTenant(q, q2.id))
               => IF q2.id = q.user._id /\ q.val # "admin"
                  THEN /\ Rejected(q2, 400)
                       /\ UNCHANGED <<users, tenants, notes>>
                       /\ q.user.role = "admin"
                  ELSE /\ q2.pc = "updateUserRole.save"
                       /\ q2.doc = users[q2.id]
                       /\ UNCHANGED <<users, tenants, notes>>
            /\ (q.pc = "updateUserRole.save" /\ q2 # q)
               => /\ Rejected(q2, 200)
                  /\ \A u \in DOMAIN users : u # q.id => users'[u] = users[u]
                  /\ users'[q.id] \in {users[q.id], [users[q.id] EXCEPT !.role = q.val]}
                  /\ q.doc.role # q.val => users'[q.id].role = q.val

\* C14: updateUserRole aimed at the acting admin with a role other than admin
\* answers 400 and leaves the acting user's role as it is; with role admin, or
\* aimed at another user of the same tenant, the self-demotion rule does not block.
C14_NoSelfDemotion == []SelfDemotionNeverSaved /\ [][SelfDemotionRule]_vars

\* one admin was refused the demotion of themselves and still is admin, and a
\* role change of another user of the tenant went through
C14_Witness ==
    \E r1, r2 \in Reqs :
        /\ req[r1].op = "updateUserRole"
        /\ Rejected(req[r1], 400)
        /\ req[r1].error = "You cannot remove your own admin privileges"
        /\ req[r1].id = req[r1].user._id
        /\ users[req[r1].user._id].role = "admin"
        /\ req[r2].op = "updateUserRole"
        /\ Rejected(req[r2], 200)
        /\ req[r2].id # req[r2].user._id
        /\ users[req[r2].id].role = req[r2].val

\* a request that asks to deactivate the acting admin never reaches the write
SelfDeactivationNeverSaved ==
    \A r \in Reqs :
        req[r].pc = "deactivateUser.save" => req[r].id # req[r].user._id

\* the step that looks the target up answers 400 when the target is the acting
\* user and changes nothing; another user of the tenant goes on to the write, and
\* the write sets isActive of the target to false and nothing else
SelfDeactivationRule ==
    \A r \in Reqs :
        LET q == req[r]
            q2 == req'[r]
        IN  /\ (q.pc = "deactivateUser.findUser" /\ q2 # q /\ TargetInOwnTenant(q, q2.id))
               => IF q2.id = q.user._id
                  THEN /\ Rejected(q2, 400)
                       /\ UNCHANGED <<users, tenants, notes>>
                  ELSE /\ q2.pc = "deactivateUser.save"
                       /\ q2.doc = users[q2.id]
                       /\ UNCHANGED <<users, tenants, notes>>
            /\ (q.pc = "deactivateUser.save" /\ q2 # q)
               => /\ Rejected(q2, 200)
                  /\ users' = [users EXCEPT ![q.id].isActive = FALSE]
                  /\ UNCHANGED <<tenants, notes>>

\* C15: deactivateUser aimed at the acting admin answers 400 and leaves the acting
\* user active; aimed at another user of the same tenant it sets only that user's
\* isActive to false and the record stays in the store.
C15_NoSelfDeactivation == []SelfDeactivationNeverSaved /\ [][SelfDeactivationRule]_vars

\* one admin was refused their own deactivation and is still active, and another
\* user of the tenant was deactivated and is still stored
C15_Witness ==
    \E r1, r2 \in Reqs :
        /\ req[r1].op = "deactivateUser"
        /\ Rejected(req[r1], 400)
        /\ req[r1].id = req[r1].user._id
        /\ users[req[r1].user._id].isActive
        /\ req[r2].op = "deactivateUser"
        /\ Rejected(req[r2], 200)
        /\ req[r2].id # req[r2].user._id
        /\ req[r2].id \in DOMAIN users
        /\ ~users[req[r2].id].isActive

\* a user id that is well formed and is not a user of the acting user's tenant:
\* a user of another tenant, or no user at all
OutsideOwnTenant(q, id) == IsObjectId(id) /\ ~TargetInOwnTenant(q, id)

\* a step that changes a user record is the save of an updateUserRole or
\* deactivateUser request of an admin of the target's tenant, changes that one
\* record in role or isActive only, and removes no record
UserChangesByOwnAdmin ==
    users' # users =>
        /\ DOMAIN users \subseteq DOMAIN users'
        /\ \E r \in Reqs :
              /\ req[r].pc \in {"updateUserRole.save", "deactivateUser.save"}
              /\ req'[r].pc = "done"
              /\ req[r].user.role = "admin"
              /\ \A u \in DOMAIN users :
                    users'[u] # users[u] =>
                        /\ u = req[r].id
                        /\ users[u].tenant = req[r].user.tenant._id
                        /\ \E role \in Roles, active \in BOOLEAN :
                              users'[u] = [users[u] EXCEPT !.role = role, !.isActive = active]

\* the lookup of a user id outside the acting admin's tenant answers 404, with the
\* answer of an id that does not exist, and changes nothing
ForeignUserAnswers404 ==
    \A r \in Reqs :
        LET q == req[r]
            q2 == req'[r]
        IN  (/\ q.pc \in {"updateUserRole.findUser", "deactivateUser.findUser"}
             /\ q2 # q
             /\ OutsideOwnTenant(q, q2.id))
            => /\ q2 = Respond([q EXCEPT !.id = q2.id], 404, "User not found in this tenant")
               /\ UNCHANGED <<users, tenants, notes>>

\* C16: a user's role or isActive flag is changed only by a request whose
\* authenticated user is an admin of the target's tenant; updateUserRole and
\* deactivateUser aimed at a user of another tenant answer 404, as for a user id
\* that does not exist, and change nothing.
C16_UserAdminTenantScoped == [][UserChangesByOwnAdmin /\ ForeignUserAnswers404]_vars

\* an admin got 404 for a user of another tenant, whose record is as seeded, while
\* a user of the admin's own tenant was changed
C16_Witness ==
    \E r1, r2 \in Reqs :
        /\ req[r1].op \in {"updateUserRole", "deactivateUser"}
        /\ Rejected(req[r1], 404)
        /\ req[r1].id \in DOMAIN users
        /\ users[req[r1].id].tenant # req[r1].user.tenant._id
        /\ users[req[r1].id] = SeedUsers[req[r1].id]
        /\ req[r2].op \in {"updateUserRole", "deactivateUser"}
        /\ Rejected(req[r2], 200)
        /\ users[req[r2].id] # SeedUsers[req[r2].id]

\* no step takes a tenant from pro back to free, and tenants are neither added
\* nor removed
PlanNeverDowngrades ==
    /\ DOMAIN tenants' = DOMAIN tenants
    /\ \A t \in DOMAIN tenants : tenants[t].plan = "pro" => tenants'[t].plan = "pro"

\* the write of upgradeTenant sets plan and max_notes of the acting admin's tenant
\* together in one step and answers 200; the read of upgradeTenant that finds the
\* tenant on pro answers 400 and changes nothing; nothing else changes a tenant
UpgradeSteps ==
    /\ \A r \in Reqs :
          LET q == req[r]
              q2 == req'[r]
          IN  /\ (q.pc = "upgradeTenant.save" /\ q2 # q)
                 => /\ Rejected(q2, 200)
                    /\ q.doc._id = q.user.tenant._id
                    /\ tenants' = [tenants EXCEPT ![q.doc._id].plan = "pro",
                                                   ![q.doc._id].max_notes = -1]
              /\ (/\ q.pc = "upgradeTenant.findOne"
                  /\ q2 # q
                  /\ FindTenantBySlug(q.slug) # Null
                  /\ FindTenantBySlug(q.slug).plan = "pro")
                 => /\ Rejected(q2, 400)
                    /\ q2.error = "Tenant is already on Pro plan"
                    /\ UNCHANGED <<users, tenants, notes>>
    /\ tenants' # tenants =>
          \E r \in Reqs : req[r].pc = "upgradeTenant.save" /\ req'[r].pc = "done"

\* the document a request is about to save as upgraded was read on the free plan
UpgradeReadFree ==
    \A r \in Reqs : req[r].pc = "upgradeTenant.save" => req[r].doc.plan = "free"

\* C17: once a tenant's plan is pro it never becomes free again; upgradeTenant on
\* a free tenant sets plan to pro and max_notes to -1 in one write; upgradeTenant
\* that finds the tenant already on pro answers 400 and leaves the tenant unchanged.
C17_PlanOneDirectional == []UpgradeReadFree /\ [][PlanNeverDowngrades /\ UpgradeSteps]_vars

\* a tenant was upgraded by one request and a later upgrade of it was refused
C17_Witness ==
    \E r1, r2 \in Reqs :
        /\ req[r1].op = "upgradeTenant"
        /\ Rejected(req[r1], 200)
        /\ req[r2].op = "upgradeTenant"
        /\ Rejected(req[r2], 400)
        /\ req[r1].user.tenant._id = req[r2].user.tenant._id
        /\ tenants[req[r1].user.tenant._id].plan = "pro"
        /\ tenants[req[r1].user.tenant._id].max_notes = Unlimited

(***************************************************************************)
(* controllers/authController.js, login, next to the requests that        *)
(* deactivate users and the requests that list notes.  A login writes      *)
(* nothing to the store, so the budget of requests does not count it.      *)
(***************************************************************************)
\* email addresses a client can type: the seeded ones, one of them in another
\* case, and one nobody has
LoginEmails ==
    {SeedUsers[u].email : u \in UserIds} \cup {"User@Acme.test", "nobody@acme.test"}

\* String.prototype.toLowerCase over the addresses above
ToLowerCase(email) == IF email = "User@Acme.test" THEN "user@acme.test" ELSE email

\* User.findOne({ email }).populate("tenant", "name slug subscription")
FindUserByEmail(email) ==
    IF \E u \in DOMAIN users : users[u].email = email
    THEN LET u == CHOOSE v \in DOMAIN users : users[v].email = email
         IN  [users[u] EXCEPT !.tenant = tenants[users[u].tenant]]
    ELSE Null

\* POST /api/auth/login arrives: the validation result
Login(r, email, bodyOk) ==
    /\ req[r].pc = "idle"
    /\ \A other \in Reqs : Before(other, r) => req[other].pc # "idle"
    /\ LET q == [Idle EXCEPT !.op = "login", !.val = email]
       IN  req' = [req EXCEPT ![r] =
                 IF ~bodyOk THEN Respond(q, 400, "Validation failed")
                 ELSE Await(q, "login.findOne")]
    /\ UNCHANGED <<users, tenants, notes, nextId, now, issued>>

\* the lookup by email without the test of isActive
LoginFindOneAnyAccount(r) ==
    /\ req[r].pc = "login.findOne"
    /\ LET q == req[r]
           user == FindUserByEmail(ToLowerCase(q.val))
       IN  req' = [req EXCEPT ![r] =
                 IF user = Null THEN Respond(q, 401, "Invalid credentials")
                 ELSE [Await(q, "login.comparePassword") EXCEPT !.doc = user]]
    /\ UNCHANGED <<users, tenants, notes, nextId, now, issued>>

\* the lookup by email and the test of isActive
LoginFindOne(r) ==
    /\ req[r].pc = "login.findOne"
    /\ LET q == req[r]
           user == FindUserByEmail(ToLowerCase(q.val))
       IN  req' = [req EXCEPT ![r] =
                 IF user = Null THEN Respond(q, 401, "Invalid credentials")
                 ELSE IF ~user.isActive THEN Respond(q, 401, "Account is deactivated")
                 ELSE [Await(q, "login.comparePassword") EXCEPT !.doc = user]]
    /\ UNCHANGED <<users, tenants, notes, nextId, now, issued>>

\* user.comparePassword(password) answered; the token is signed for the user
\* document the lookup returned
LoginComparePassword(r, isPasswordValid) ==
    /\ req[r].pc = "login.comparePassword"
    /\ LET q == req[r]
       IN  req' = [req EXCEPT ![r] =
                 IF ~isPasswordValid THEN Respond(q, 401, "Invalid credentials")
                 ELSE Reply(q, 200, [token |-> generateAccessToken(q.doc, q.doc.tenant, now),
                                     user |-> q.doc._id])]
    /\ UNCHANGED <<users, tenants, notes, nextId, now, issued>>

LoginStep(r) ==
    \/ \E email \in LoginEmails, bodyOk \in BOOLEAN : Login(r, email, bodyOk)
    \/ LoginFindOne(r)
    \/ \E isPasswordValid \in BOOLEAN : LoginComparePassword(r, isPasswordValid)

LoginSideOps == {"getNotes", "deactivateUser"}

\* the steps of the other requests
LoginSideStep(r) ==
    \/ \E op \in LoginSideOps, hdr \in Headers : \E in \in RouteInputs(op) :
            Request(r, op, hdr, in)
    \/ \E query \in Queries : GetNotesFind(r, query)
    \/ DeactivateUserFindTenant(r)
    \/ \E id \in UserIdInputs : DeactivateUserFindUser(r, id)
    \/ DeactivateUserSave(r)
    \/ Finish(r)

NextLogin == \E r \in Reqs : LoginSideStep(r) \/ LoginStep(r)

SpecLogin == Init /\ [][NextLogin]_vars

\* the header carries a token, genuine or not, that names user u
CarriesTokenOf(hdr, u) ==
    /\ hdr # NoHeader
    /\ hdr.cred.payload.userId = u

Deactivated(u) == u \in DOMAIN users /\ ~users[u].isActive

\* a login that got as far as the password comparison read an active account
LoginReadActive ==
    \A r \in Reqs : req[r].pc = "login.comparePassword" => req[r].doc.isActive

\* deactivation keeps the record, and a deactivated record stays stored and
\* deactivated
SoftDelete ==
    /\ \A r \in Reqs :
          (req[r].pc = "deactivateUser.save" /\ req'[r] # req[r])
          => req[r].id \in DOMAIN users' /\ ~users'[req[r].id].isActive
    /\ \A u \in DOMAIN users :
          ~users[u].isActive => u \in DOMAIN users' /\ ~users'[u].isActive

\* a request that arrives with the token of a deactivated user is answered 401 by
\* the chain, and the lookup of a login for a deactivated user answers 401
\* without a token; neither changes a record
DeactivatedShutOut ==
    \A r \in Reqs :
        /\ (req[r].pc = "idle" /\ req'[r].pc # "idle" /\ req'[r].op \in Ops)
           => \A u \in {v \in DOMAIN users : Deactivated(v)} :
                \A hdr \in {h \in Headers : CarriesTokenOf(h, u)} :
                  \A in \in RouteInputs(req'[r].op) :
                    Request(r, req'[r].op, hdr, in)
                  => /\ Rejected(req'[r], 401)
                     /\ req'[r].user = NoUser
                     /\ UNCHANGED <<users, tenants, notes>>
        /\ (/\ req[r].pc = "login.findOne"
            /\ req'[r] # req[r]
            /\ \E u \in DOMAIN users :
                  users[u].email = ToLowerCase(req[r].val) /\ Deactivated(u))
           => /\ Rejected(req'[r], 401)
              /\ req'[r].body = NoBody
              /\ UNCHANGED <<users, tenants, notes>>

\* C18: after deactivateUser on U has committed, U's record is still stored with
\* isActive false, every request with U's token whose authenticate step runs
\* afterwards is answered 401, and every login for U whose lookup runs afterwards
\* is answered 401 and issues no token.
C18_DeactivatedExcluded == []LoginReadActive /\ [][SoftDelete /\ DeactivatedShutOut]_vars

\* a deactivated user is still stored; a request with that user's unexpired token
\* and a login for that user were both answered 401
C18_Witness ==
    \E u \in DOMAIN users : \E r1, r2 \in Reqs :
        /\ Deactivated(u)
        /\ req[r1].op \in NoteOps
        /\ Rejected(req[r1], 401)
        /\ req[r1].error = "Account is deactivated."
        /\ req[r2].op = "login"
        /\ req[r2].val = users[u].email
        /\ Rejected(req[r2], 401)
        /\ req[r2].error = "Account is deactivated"
        /\ req[r2].body = NoBody

\* every stored note has a stored author, and the note's tenant is the author's
NoteTenantIsAuthorTenant ==
    \A n \in notes : n.author \in DOMAIN users /\ users[n.author].tenant = n.tenant

\* the save hook lets a new note through exactly when its author is stored and
\* belongs to the note's tenant
HookRefusesMismatch ==
    \A author \in UserIdInputs, tenantId \in TenantIds :
        PreSaveNote(author, tenantId) = "ok"
            <=> (author \in DOMAIN users /\ users[author].tenant = tenantId)

NoteById(coll, id) == CHOOSE n \in coll : n._id = id
NoteIds(coll) == {n._id : n \in coll}

\* a new note carries the creating request's user as author and that user's
\* tenant as tenant; a note that stays keeps its author and tenant; and a user
\* that stays keeps its tenant
OwnersNeverChange ==
    /\ \A id \in NoteIds(notes') \ NoteIds(notes) :
          \E r \in Reqs :
              /\ req[r].pc = "createNote.create"
              /\ Rejected(req'[r], 201)
              /\ NoteById(notes', id).author = req[r].user._id
              /\ NoteById(notes', id).tenant = req[r].user.tenant._id
    /\ \A id \in NoteIds(notes') \cap NoteIds(notes) :
          /\ NoteById(notes', id).author = NoteById(notes, id).author
          /\ NoteById(notes', id).tenant = NoteById(notes, id).tenant
    /\ \A u \in DOMAIN users \cap DOMAIN users' : users'[u].tenant = users[u].tenant

\* C19: every note's tenant equals the tenant of its author: createNote stores
\* the authenticated user as author and that user's tenant as tenant, the save
\* hook refuses a note whose tenant is not its author's, and no update changes a
\* note's author or tenant or a user's tenant.
C19_NoteTenantMatchesAuthor ==
    /\ [](NoteTenantIsAuthorTenant /\ HookRefusesMismatch)
    /\ [][OwnersNeverChange]_vars

\* a note was created by a request, and the author of a note had the role changed
\* or was deactivated while the author's tenant is still the note's
C19_Witness ==
    /\ \E n \in notes \ SeedNotes : n._id \notin NoteIds(SeedNotes)
    /\ \E n \in notes :
          /\ users[n.author] # SeedUsers[n.author]
          /\ users[n.author].tenant = n.tenant

RejectionStatuses == {400, 401, 403, 404}
Store == <<users, tenants, notes>>

\* the step that answers a request with 400, 401, 403 or 404 changes no record
RejectionWritesNothing ==
    \A r \in Reqs :
        (req[r].pc # "done" /\ req'[r].pc = "done" /\ req'[r].status \in RejectionStatuses)
        => UNCHANGED Store

\* a step after which the request still runs changes no record: the write of a
\* handler comes after all its checks, as its last store call
ChecksBeforeWrite ==
    \A r \in Reqs :
        (req'[r] # req[r] /\ req'[r].pc \notin {"idle", "done"}) => UNCHANGED Store

\* every change of a record is the last step of a request that answers 200 or 201
WritesOnlyOnSuccess ==
    Store' # Store =>
        \E r \in Reqs :
            /\ req[r].pc \notin {"idle", "done"}
            /\ req'[r].pc = "done"
            /\ req'[r].status \in {200, 201}

\* C20: a request that ends with 400, 401, 403 or 404 has written nothing to the
\* User, Tenant and Note records: every check of a handler precedes its first
\* mutating store call.
C20_NoPartialCommit ==
    [][RejectionWritesNothing /\ ChecksBeforeWrite /\ WritesOnlyOnSuccess]_vars

\* a creation was refused by the subscription gate after another one went
\* through: the store holds the seeded records and the one note of the request
\* that was answered 201
C20_Witness ==
    \E r1, r2 \in Reqs :
        /\ req[r1].op = "createNote"
        /\ Rejected(req[r1], 201)
        /\ req[r2].op = "createNote"
        /\ Rejected(req[r2], 403)
        /\ req[r2].error = "Note limit reached for your subscription plan"
        /\ users = SeedUsers
        /\ tenants = SeedTenants
        /\ SeedNotes \subseteq notes
        /\ NoteIds(notes) \ NoteIds(SeedNotes) = {req[r1].id}

(***************************************************************************)
(* The chain and the handlers with a store that can fail: any store call   *)
(* of a check or of a handler may throw instead of answering.  The request *)
(* is dispatched check by check as in SpecChain.                           *)
(***************************************************************************)
\* authenticate when User.findById throws: the catch block of authenticate
authenticateStoreFails(q, hdr) ==
    LET token == StripBearer(hdr) IN
    IF token = EmptyCred
    THEN Respond(q, 401, "Access denied. No token provided.")
    ELSE IF ~JwtVerifies(token, JWT_SECRET, now)
    THEN Respond(q, 401, "Invalid token.")
    ELSE Respond(q, 401, "Invalid token.")

\* validateTenant when Tenant.findOne throws: the catch block of validateTenant
validateTenantStoreFails(q) ==
    IF q.slug = "" \/ q.user # NoUser THEN validateTenant(q)
    ELSE Respond(q, 500, "Internal server error.")

\* the check reaches its store call with this request
ReachesStore(name, q, hdr) ==
    CASE name = "authenticate" ->
            StripBearer(hdr) # EmptyCred /\ JwtVerifies(StripBearer(hdr), JWT_SECRET, now)
      [] name = "validateTenant" -> q.slug # "" /\ q.user = NoUser
      [] OTHER -> FALSE

\* express calls the next check and the check's store call throws
CheckStepStoreFails(r) ==
    /\ InChain(req[r])
    /\ req[r].body.left # <<>>
    /\ LET q == req[r]
           name == Head(q.body.left)
           logged == [q EXCEPT !.body.ran = Append(@, name), !.body.left = Tail(@)]
       IN  /\ ReachesStore(name, q, q.body.hdr)
           /\ req' = [req EXCEPT ![r] =
                    IF name = "authenticate" THEN authenticateStoreFails(logged, q.body.hdr)
                    ELSE validateTenantStoreFails(logged)]
    /\ UNCHANGED <<users, tenants, notes, nextId, now, issued>>

\* the store call a handler is waiting for throws: the catch block of the
\* handler, whose error is no CastError
HandlerStepStoreFails(r) ==
    /\ InHandler(req[r])
    /\ req' = [req EXCEPT ![r] = Respond(@, 500, "Internal server error")]
    /\ UNCHANGED <<users, tenants, notes, nextId, now, issued>>

NextFailure ==
    \E r \in Reqs :
        \/ CheckStep(r)
        \/ HandlerStart(r)
        \/ HandlerStep(r)
        \/ CheckStepStoreFails(r)
        \/ HandlerStepStoreFails(r)

SpecFailure == InitChain /\ [][NextFailure]_vars

\* a step in which a store call throws answers the request with 500
StoreFailureSurfacesAs500 ==
    \A r \in Reqs :
        (CheckStepStoreFails(r) \/ HandlerStepStoreFails(r)) => Rejected(req'[r], 500)

\* C21: a store failure during any check of the chain or any handler is answered
\* 500, never 401, 403 or 404; this includes the user lookup of authenticate and
\* the tenant lookup of validateTenant.
C21_StoreFailureIs500 == [][StoreFailureSurfacesAs500]_vars

(***************************************************************************)
(* utils/jwt.js on its own: claim sets are signed, the clock advances, a   *)
(* token may be altered in the client's hands, and the token is verified.  *)
(* One token is followed from its signing to its verification.             *)
(***************************************************************************)
MaxClock == 3

ClaimSets ==
    [userId : {"u_admin_acme", "u_user_globex"},
     email : {"admin@acme.test", "user@globex.test"},
     role : Roles,
     tenantId : {"t_acme"},
     tenantSlug : {"acme", "globex"}]

\* a string that is not a JSON web token
MalformedToken == [payload |-> [userId |-> "garbage"], sig |-> Sign([userId |-> ""], "")]
WellFormed(token) == "exp" \in DOMAIN token.payload

\* verifyToken: the decoded payload, or the one error thrown for every failure
verifyToken(token, t) ==
    IF WellFormed(token) /\ JwtVerifies(token, JWT_SECRET, t)
    THEN [threw |-> FALSE, decoded |-> token.payload]
    ELSE [threw |-> TRUE, message |-> "Invalid token"]

InitToken ==
    /\ users = SeedUsers
    /\ tenants = SeedTenants
    /\ notes = SeedNotes
    /\ nextId = Cardinality(SeedNotes) + 1
    /\ now = 0
    /\ req = [r \in Reqs |-> Idle]
    /\ issued = 0

Tick ==
    /\ now < MaxClock
    /\ now' = now + 1
    /\ UNCHANGED <<users, tenants, notes, nextId, req, issued>>

\* generateToken(claims) at the present time
GenerateToken(r, claims) ==
    /\ \A other \in Reqs : req[other].pc = "idle"
    /\ req' = [req EXCEPT ![r] = [Idle EXCEPT !.pc = "token", !.op = "verifyToken",
                                              !.body = claims,
                                              !.doc = generateToken(claims, now)]]
    /\ UNCHANGED <<users, tenants, notes, nextId, now, issued>>

\* the client swaps the token for an altered one
AlterToken(r, how) ==
    /\ req[r].pc = "token"
    /\ WellFormed(req[r].doc)
    /\ req' = [req EXCEPT ![r].doc = CASE how = "forge" -> Forge(@)
                                        [] how = "tamper" -> Tamper(@)
                                        [] OTHER -> MalformedToken]
    /\ UNCHANGED <<users, tenants, notes, nextId, now, issued>>

\* verifyToken(token) at the present time
VerifyToken(r) ==
    /\ req[r].pc = "token"
    /\ LET result == verifyToken(req[r].doc, now)
       IN  req' = [req EXCEPT ![r] =
                 IF result.threw THEN [@ EXCEPT !.pc = "threw", !.error = result.message]
                 ELSE [@ EXCEPT !.pc = "returned", !.user = result.decoded]]
    /\ UNCHANGED <<users, tenants, notes, nextId, now, issued>>

NextToken ==
    \/ Tick
    \/ \E r \in Reqs, claims \in ClaimSets : GenerateToken(r, claims)
    \/ \E r \in Reqs, how \in {"forge", "tamper", "malform"} : AlterToken(r, how)
    \/ \E r \in Reqs : VerifyToken(r)

SpecToken == InitToken /\ [][NextToken]_vars

\* the token in hand is the one generateToken made of the claim set
Genuine(q) == WellFormed(q.doc) /\ q.doc = generateToken(q.body, q.doc.payload.iat)

SameClaims(decoded, claims) ==
    /\ decoded.userId = claims.userId
    /\ decoded.email = claims.email
    /\ decoded.role = claims.role
    /\ decoded.tenantId = claims.tenantId
    /\ decoded.tenantSlug = claims.tenantSlug

\* what a verification returned is the claim set of a genuine token, and what it
\* threw is the one error
RoundTrip ==
    \A r \in Reqs :
        LET q == req[r] IN
        /\ q.pc = "returned" => Genuine(q) /\ SameClaims(q.user, q.body)
        /\ q.pc = "threw" => q.error = "Invalid token"

\* verifying the genuine token before its expiry returns, everything else throws
VerifyDecides ==
    \A r \in Reqs :
        (req[r].pc = "token" /\ req'[r].pc \in {"returned", "threw"})
        => (req'[r].pc = "returned"
              <=> (Genuine(req[r]) /\ now < req[r].doc.payload.exp))

InitDelete ==
    /\ users = SeedUsers
    /\ tenants = SeedTenants
    /\ \E more \in {{}, {NewNote(Cardinality(SeedNotes) + 1, "u_user_acme", "t_acme", "a")}} :
          /\ notes = SeedNotes \cup more
          /\ nextId = Cardinality(SeedNotes) + Cardinality(more) + 1
    /\ now = 0
    /\ req = [r \in Reqs |-> Idle]
    /\ issued = 0

NoteStep(r) ==
    \/ \E op \in NoteOps, hdr \in Headers : \E in \in RouteInputs(op) : Request(r, op, hdr, in)
    \/ \E query \in Queries : GetNotesFind(r, query)
    \/ \E id \in NoteIdInputs : GetNoteFindOne(r, id)
    \/ CreateNoteCount(r)
    \/ \E content \in Contents : CreateNoteCreate(r, content)
    \/ \E id \in NoteIdInputs : UpdateNoteFindOne(r, id)
    \/ \E content \in Contents \cup {""} : UpdateNoteUpdate(r, content)
    \/ \E id \in NoteIdInputs : DeleteNoteFindOne(r, id)
    \/ DeleteNoteDelete(r)
    \/ GetNotesStatsAll(r)
    \/ GetNotesStatsCanCreate(r)
    \/ Finish(r)

NextDelete == \E r \in Reqs : NoteStep(r)

SpecDelete == InitDelete /\ [][NextDelete]_vars

\* the ids of notes that were stored once and are not any more
DeletedIds == {NoteId(i) : i \in 1..(nextId - 1)} \ NoteIds(notes)

\* the write of deleteNote answers 200 and takes the note out of the store, a
\* note that is gone stays gone, a fetch of getNote, updateNote or deleteNote for
\* the id of a note that is gone answers 404, and the gate counts the notes that
\* are stored for the tenant and no others
HardDelete ==
    /\ DeletedIds \subseteq DeletedIds'
    /\ \A r \in Reqs :
          LET q == req[r]
              q2 == req'[r]
          IN  /\ (q.pc = "deleteNote.delete" /\ q2 # q)
                 => /\ Rejected(q2, 200)
                    /\ notes' = {n \in notes : n._id # q.id}
                    /\ q.id \in DeletedIds'
              /\ (/\ q.pc \in {"getNote.findOne", "updateNote.findOne", "deleteNote.findOne"}
                  /\ q2 # q
                  /\ q2.id \in DeletedIds)
                 => /\ Rejected(q2, 404)
                    /\ UNCHANGED <<users, tenants, notes>>
              /\ (q.pc = "createNote.count" /\ q2 # q)
                 => (q2.pc = "createNote.create"
                       <=> Cardinality({n \in notes : n.tenant = q.tenant._id})
                              < q.tenant.max_notes)

\* C23: after a deleteNote on note N answered 200, N is absent from the store,
\* every later getNote, updateNote and deleteNote on N's id answers 404, and N
\* no longer counts toward the quota: a free tenant that was at max_notes before
\* the delete can create one more note.
C23_HardDelete == [][HardDelete]_vars

\* a tenant on the free plan was at its limit, one of its notes was deleted, and
\* a creation went through afterwards, which brings it to the limit again
C23_Witness ==
    \E r1, r2 \in Reqs :
        /\ req[r1].op = "deleteNote"
        /\ Rejected(req[r1], 200)
        /\ req[r1].id \in DeletedIds
        /\ req[r2].op = "createNote"
        /\ Rejected(req[r2], 201)
        /\ req[r2].tenant._id = req[r1].tenant._id
        /\ req[r2].tenant.plan = "free"
        /\ CountNotes(notes, req[r2].tenant._id) = req[r2].tenant.max_notes

(***************************************************************************)
(* The administration routes alone, started from the seeded store or from  *)
(* the store after the member of the first tenant was made admin, so that  *)
(* the tenant has two admins and the member's token still says member.     *)
(***************************************************************************)
InitRoles ==
    /\ users \in {SeedUsers, [SeedUsers EXCEPT !["u_user_acme"].role = "admin"]}
    /\ tenants = SeedTenants
    /\ notes = SeedNotes
    /\ nextId = Cardinality(SeedNotes) + 1
    /\ now = 0
    /\ req = [r \in Reqs |-> Idle]
    /\ issued = 0

RoleStep(r) ==
    \/ \E op \in AdminOps, hdr \in Headers : \E in \in RouteInputs(op) : Request(r, op, hdr, in)
    \/ UpgradeTenantFindOne(r)
    \/ UpgradeTenantSave(r)
    \/ GetTenantUsersFindTenant(r)
    \/ GetTenantUsersFind(r)
    \/ UpdateUserRoleFindTenant(r)
    \/ \E id \in UserIdInputs : UpdateUserRoleFindUser(r, id)
    \/ UpdateUserRoleSave(r)
    \/ DeactivateUserFindTenant(r)
    \/ \E id \in UserIdInputs : DeactivateUserFindUser(r, id)
    \/ DeactivateUserSave(r)
    \/ Finish(r)

NextRoles == \E r \in Reqs : RoleStep(r)

SpecRoles == InitRoles /\ [][NextRoles]_vars

\* a request that arrives on an administration route with an admissible token is
\* judged by the role stored for the user at that moment: 403 by requireAdmin
\* when it is not admin, whatever the token says, and otherwise the stored user
\* is attached and requireAdmin lets the request on
StoredRoleDecides ==
    \A r \in Reqs :
        (req[r].pc = "idle" /\ req'[r].pc # "idle" /\ req'[r].op \in AdminOps)
        => \A hdr \in {h \in Headers : Admissible(h)} :
             \A in \in RouteInputs(req'[r].op) :
               Request(r, req'[r].op, hdr, in)
               => LET u == StripBearer(hdr).payload.userId IN
                  IF users[u].role # "admin"
                  THEN /\ Rejected(req'[r], 403)
                       /\ req'[r].error = "Access denied. Admin privileges required."
                       /\ req'[r].user = StoredUser(u)
                       /\ UNCHANGED <<users, tenants, notes>>
                  ELSE /\ req'[r].user = StoredUser(u)
                       /\ req'[r].tenant = tenants[users[u].tenant]
                       /\ req'[r].error # "Access denied. Admin privileges required."

\* C24: authorization uses the role, tenant and active flag authenticate reads
\* from the store in the same request, never the claims of the token: after an
\* updateUserRole that demotes U has committed, a request by U whose authenticate
\* runs afterwards is answered 403 by requireAdmin, even with an unexpired token
\* issued while U was admin.
C24_StoreRoleNotTokenRole == [][StoredRoleDecides]_vars

\* the seeded admin was demoted by the other admin and then refused on an
\* administration route with the token that says admin
C24_Witness ==
    \E r1, r2 \in Reqs :
        /\ req[r1].op = "updateUserRole"
        /\ Rejected(req[r1], 200)
        /\ req[r1].id = "u_admin_acme"
        /\ users["u_admin_acme"].role = "member"
        /\ req[r2].op \in AdminOps
        /\ Rejected(req[r2], 403)
        /\ req[r2].error = "Access denied. Admin privileges required."
        /\ req[r2].user # NoUser
        /\ req[r2].user._id = "u_admin_acme"
        /\ req[r2].user.role = "member"

ActiveAdmins(t) ==
    {u \in DOMAIN users : users[u].tenant = t /\ users[u].role = "admin" /\ users[u].isActive}

\* C25: under any interleaving of updateUserRole and deactivateUser requests of
\* the admins of a tenant, a tenant that starts with an active admin has an
\* active admin in every reachable state.
C25_TenantKeepsAdmin == \A t \in DOMAIN tenants : ActiveAdmins(t) # {}

\* the write of updateNote that answers 200 found the note in the store and
\* answers with the updated note
UpdateAnswersWithNote ==
    \A r \in Reqs :
        (req[r].pc = "updateNote.update" /\ Rejected(req'[r], 200))
        => /\ FindNoteById(notes, req[r].id) # Null
           /\ req'[r].body # Null
           /\ req'[r].body._id = req[r].id

\* C26: updateNote answers 200 only when its update was applied to a note that
\* exists: also with a deleteNote on the same note committing between updateNote's
\* fetch and its write, a 200 of updateNote means the store held the note at the
\* write and the response carries the updated note, never a null note.
C26_UpdateOnlyOnStoredNote == [][UpdateAnswersWithNote]_vars

====
